---- MODULE Spec2Model ----
(***************************************************************************)
(* Crawl scheduler of nimcrawl (src/core/crawler.ts, second revision of    *)
(* crawlUrl / processUrl, lines 352-757).                                  *)
(*                                                                         *)
(* Execution model: JavaScript, one thread.  crawlUrl runs synchronously   *)
(* from one await to the next; the domain-batch units created by the       *)
(* dispatch loop run only while crawlUrl is suspended at an await, and     *)
(* each runs atomically from one of its awaits to the next.  Promise       *)
(* reactions (microtasks) run before the next timer or I/O completion.     *)
(***************************************************************************)
EXTENDS Integers, Sequences, FiniteSets, TLC

(***************************************************************************)
(* Bounds of the explored configurations.                                  *)
(***************************************************************************)
MaxDepthBound == 2
MaxPagesBound == 3
MaxConcurrency == 2
MaxDomainConcurrency == 2
MaxDomainDelay == 1
MaxRuns == 2
MaxHtmlLength == 11
MaxLinks == 2
MaxTtl == 1
MaxClock == 3
MaxMarkdownLength == 101
MaxParagraphs == 3
MaxScripts == 4
MaxTokens == 2
MaxInterval == 2

(***************************************************************************)
(* The URL universe: strings a caller may pass as seed and strings that    *)
(* scrapeUrl reports as links.  "http://a.com" is the home page of a.com   *)
(* written without the trailing slash; "http://" is a string that new URL  *)
(* rejects.  z.com is a hub: its home page links into five domains.  From  *)
(* the home page of w.com the page v.com/p1 is two links away through      *)
(* v.com and three links away through z.com/p1 and b.com/p2.               *)
(***************************************************************************)
HomeA == "http://a.com/"
HomeANoSlash == "http://a.com"
PageA1 == "http://a.com/p1"
PageA2 == "http://a.com/p2"
PageA3 == "http://a.com/p3"
HomeB == "http://b.com/"
PageB2 == "http://b.com/p2"
HomeZ == "http://z.com/"
PageZ1 == "http://z.com/p1"
HomeW == "http://w.com/"
HomeV == "http://v.com/"
PageV1 == "http://v.com/p1"
PageV2 == "http://v.com/p2"
BadLink == "http://"
Invalid == "INVALID"

Urls == {HomeA, HomeANoSlash, PageA1, PageA2, PageA3, HomeB, BadLink,
         PageB2, HomeZ, PageZ1, HomeW, HomeV, PageV1, PageV2}
Domains == {"a.com", "b.com", "z.com", "w.com", "v.com", BadLink}
Seeds == {HomeA, HomeANoSlash, BadLink}

\* new URL(url).hostname, with the fallback of getDomain for unparsable input
getDomain(url) ==
  IF url \in {HomeA, HomeANoSlash, PageA1, PageA2, PageA3} THEN "a.com"
  ELSE IF url \in {HomeB, PageB2} THEN "b.com"
  ELSE IF url \in {HomeZ, PageZ1} THEN "z.com"
  ELSE IF url = HomeW THEN "w.com"
  ELSE IF url \in {HomeV, PageV1, PageV2} THEN "v.com"
  ELSE url

\* new URL(link).toString(): adds the missing root path; Invalid when new URL throws
UrlToString(link) ==
  IF link = HomeANoSlash THEN HomeA
  ELSE IF link \in Urls \ {BadLink} THEN link
  ELSE Invalid

\* The href attributes of the anchors of the page at url, in document order.
\* Every page lies in the root directory of its host.
Hrefs(url) ==
  CASE url \in {HomeA, HomeANoSlash} ->
         <<"/p1", "p2", "http://b.com/", "http://a.com">>
    [] url = PageA1 -> <<"./p3", "/">>
    [] url = PageA2 -> <<"/p3", "p3", "http://", "p1">>
    [] url = HomeB -> <<"http://a.com/p3", "/">>
    [] url = HomeZ ->
         <<"http://a.com/p1", "http://b.com/", "http://a.com/p2",
           "http://b.com/p2", "http://w.com/", "http://v.com/", "p1">>
    [] url = HomeW -> <<"http://v.com/", "http://z.com/p1">>
    [] url = PageZ1 -> <<"http://b.com/p2">>
    [] url = PageB2 -> <<"http://v.com/p1">>
    [] url = HomeV -> <<"/p1">>
    [] url = PageV1 -> <<"p2">>
    [] OTHER -> <<>>

\* link-extractor.ts 15: url.startsWith("http://")
IsAbsolute(href) == href \in Urls

\* the path a relative reference has once its dot segments are resolved
\* against a page of the root directory
PathOf(href) ==
  CASE href \in {"/p1", "p1"} -> "/p1"
    [] href = "p2" -> "/p2"
    [] href \in {"./p3", "/p3", "p3"} -> "/p3"
    [] OTHER -> "/"

\* the string of the URL with this host and path
UrlAt(host, path) ==
  CASE host = "a.com" /\ path = "/" -> HomeA
    [] host = "a.com" /\ path = "/p1" -> PageA1
    [] host = "a.com" /\ path = "/p2" -> PageA2
    [] host = "a.com" /\ path = "/p3" -> PageA3
    [] host = "b.com" /\ path = "/" -> HomeB
    [] host = "b.com" /\ path = "/p2" -> PageB2
    [] host = "z.com" /\ path = "/" -> HomeZ
    [] host = "z.com" /\ path = "/p1" -> PageZ1
    [] host = "v.com" /\ path = "/" -> HomeV
    [] host = "v.com" /\ path = "/p1" -> PageV1
    [] host = "v.com" /\ path = "/p2" -> PageV2
    [] OTHER -> Invalid

\* link-extractor.ts 12-34: absolute URLs are returned as they are, other
\* references are resolved with new URL(url, base).toString()
normalizeUrl(url, baseUrl) ==
  IF IsAbsolute(url) THEN url
  ELSE UrlAt(getDomain(baseUrl), PathOf(url))

\* link-extractor.ts 41 and 54: a Set keeps the first of equal strings
RECURSIVE AddAll(_, _, _, _)
AddAll(links, hrefs, i, baseUrl) ==
  IF i > Len(hrefs) THEN links
  ELSE LET normalizedUrl == normalizeUrl(hrefs[i], baseUrl) IN
       IF \E k \in 1..Len(links) : links[k] = normalizedUrl
       THEN AddAll(links, hrefs, i + 1, baseUrl)
       ELSE AddAll(Append(links, normalizedUrl), hrefs, i + 1, baseUrl)

\* link-extractor.ts 39-62
extractLinks(hrefs, baseUrl) == AddAll(<<>>, hrefs, 1, baseUrl)

\* The links scrapeUrl reports for each page of the site (scraper.ts 138).
SiteLinks == [url \in Urls |-> extractLinks(Hrefs(url), url)]

PageLinks(url) == SiteLinks[url]

\* Outcomes of one scrapeUrl call as processUrl distinguishes them (659, 732):
\* "ok" is success with data, "fail" is no success with an error, "silent"
\* is no success and no error (a transform hook cleared the success flag).
\* scrapeUrl catches every exception itself (scraper.ts 31, 274-287), so the
\* call never rejects and the catch blocks of 537 and 741 are never entered.
Outcomes == {"ok", "fail", "silent"}

\* The pages on which the caller's transform hooks (scraper.ts 111-117,
\* 269-271) may clear the success flag of a fetched result.
HookTargets == {PageA2}

\* What scrapeUrl can return for url: fetch(url) throws on a string that is
\* not a URL (scraper.ts 49, 75), which leaves a result with an error
OutcomesOf(url) ==
  IF url = BadLink THEN {"fail"}
  ELSE IF url \in HookTargets THEN Outcomes ELSE Outcomes \ {"silent"}

NoOutcome == "none"
NoResult == [returned |-> FALSE]

VARIABLES
  startUrl,         \* crawlUrl's first argument
  options,          \* crawlUrl's second argument, defaults applied
  visited,          \* state.visited
  queue,            \* state.queue
  results,          \* state.results: <<[url, depth]>>
  errors,           \* state.errors
  depth,            \* state.depth: function on the URLs that have an entry
  pagesProcessed,   \* state.pagesProcessed
  domainCounts,     \* state.domainCounts (missing entry = 0)
  lastProcessed,    \* state.lastProcessed, kept as the age of the timestamp
  failedUrlsCache,  \* module-level cache: url -> error message
  seenUrlsCache,    \* module-level cache: set of URLs
  activePromises,   \* activePromises, each promise with the unit behind it
  pcMain,           \* where crawlUrl is
  result,           \* the CrawlResult returned
  dispatchCount,    \* history: times a URL was put into a domain batch
  outcome,          \* history: terminal outcome of processing each URL
  runs,             \* number of crawlUrl calls made in this process
  rejected,         \* history: links turned away at 696-705, <<url, failed>>
  sfHost,           \* smartFetch: hostname of its url argument
  sfPc,             \* smartFetch: the await it is suspended at
  simpleResult,     \* smartFetch: what its own simpleFetch call gave
  initialHtml,      \* jsDomFetch: the HTML of its own simpleFetch call
  jsdomResult,      \* smartFetch: what the jsDomFetch call gave
  sfResult,         \* smartFetch: its return value or the error it threw
  netRequests,      \* history: fetch(url) calls made for the url
  flLinks,          \* filterLinks: the links argument
  flBaseUrl,        \* filterLinks: the baseUrl argument
  flOptions,        \* filterLinks: the options argument
  flOnce,           \* filterLinks(links, baseUrl, options)
  flTwice,          \* filterLinks applied to flOnce
  flApplied,        \* number of filterLinks calls made so far
  cache,            \* createCache: the Map, key -> [value, expiry]
  now,              \* createCache: Date.now()
  lastCall,         \* history: the last call on the cache and what it gave
  scOptions,        \* scrapeUrl: the options argument
  scPc,             \* scrapeUrl: the await it is suspended at
  scFetchError,     \* scrapeUrl: fetchError
  scContent,        \* scrapeUrl: what the html it holds contains
  scResult,         \* scrapeUrl: the ScrapeResult it returned
  dtHost,           \* detectContentType: hostname of its url argument
  dtMetrics,        \* detectContentType: the metrics of its html argument
  dtResult,         \* detectContentType: the ContentType it returned
  otherPc,          \* a second crawlUrl call in the process: where it is
  jdTimeout,        \* jsDomFetch: options.timeout, in ms
  jdPc,             \* jsDomFetch: the await it is suspended at
  jdWindow,         \* jsDomFetch: the JSDOM instance and its window
  jdLoad,           \* jsDomFetch: the load listener and the load event
  jdTimers,         \* jsDomFetch: pending setTimeout calls, name -> due time
  jdNow,            \* jsDomFetch: ms since the JSDOM instance was created
  jdRace,           \* jsDomFetch: how the Promise.race settled
  jdResult,         \* jsDomFetch: what it returned or that it threw
  rlDefaultRule,    \* createRateLimiter: defaultRule
  rlRules,          \* createRateLimiter: the Map rules, domain -> rule
  rlNow,            \* createRateLimiter: Date.now()
  rlWaiters,        \* acquire: each caller, idle or waiting on its timer
  rlLastOp          \* history: the last call on the limiter and its domain

crawlVars == <<startUrl, options, visited, queue, results, errors, depth,
               pagesProcessed, domainCounts, lastProcessed, failedUrlsCache,
               seenUrlsCache, activePromises, pcMain, result, dispatchCount,
               outcome, runs, rejected>>

fetchVars == <<sfHost, sfPc, simpleResult, initialHtml, jsdomResult, sfResult,
               netRequests>>

filterVars == <<flLinks, flBaseUrl, flOptions, flOnce, flTwice, flApplied>>

cacheVars == <<cache, now, lastCall>>

scrapeVars == <<scOptions, scPc, scFetchError, scContent, scResult>>

detectVars == <<dtHost, dtMetrics, dtResult>>

jsdomVars == <<jdTimeout, jdPc, jdWindow, jdLoad, jdTimers, jdNow, jdRace,
               jdResult>>

rateVars == <<rlDefaultRule, rlRules, rlNow, rlWaiters, rlLastOp>>

vars == <<crawlVars, fetchVars, filterVars, cacheVars, scrapeVars, detectVars,
          otherPc, jsdomVars, rateVars>>

\* what a step of one component leaves alone
libraryVars == <<fetchVars, filterVars, cacheVars, scrapeVars, detectVars,
                 jsdomVars, rateVars>>
notCrawlVars == <<libraryVars, otherPc>>
notFetchVars ==
  <<crawlVars, otherPc, jsdomVars, rateVars, filterVars, cacheVars, scrapeVars, detectVars>>
notFilterVars ==
  <<crawlVars, otherPc, jsdomVars, rateVars, fetchVars, cacheVars, scrapeVars, detectVars>>
notCacheVars ==
  <<crawlVars, otherPc, jsdomVars, rateVars, fetchVars, filterVars, scrapeVars, detectVars>>
notScrapeVars ==
  <<crawlVars, otherPc, jsdomVars, rateVars, fetchVars, filterVars, cacheVars, detectVars>>
notDetectVars ==
  <<crawlVars, otherPc, jsdomVars, rateVars, fetchVars, filterVars, cacheVars, scrapeVars>>

Max(a, b) == IF a >= b THEN a ELSE b
Min(a, b) == IF a <= b THEN a ELSE b

RemoveAt(s, i) == SubSeq(s, 1, i - 1) \o SubSeq(s, i + 1, Len(s))
SeqToSet(s) == {s[i] : i \in 1..Len(s)}

OptionSpace ==
  [maxDepth : 0..MaxDepthBound,
   maxPages : 1..MaxPagesBound,
   concurrency : 1..MaxConcurrency,
   domainDelay : 0..MaxDomainDelay,
   domainConcurrency : 1..MaxDomainConcurrency,
   allowExternalDomains : BOOLEAN]

\* The value of a variable of smartFetch or filterLinks before a call.
NotYet == "notYet"

\* What an awaited fetch gave: nothing yet, an exception, or HTML, of which
\* smartFetch reads only the length; `from` names the call that produced it.
NoValue == [kind |-> "notYet"]
ThrownValue == [kind |-> "thrown"]
Html(from, len) == [kind |-> "html", from |-> from, len |-> len]

\* No call of smartFetch is under way.
FetchIdle ==
  /\ sfHost = NotYet
  /\ sfPc = "idle"
  /\ simpleResult = NoValue
  /\ initialHtml = NoValue
  /\ jsdomResult = NoValue
  /\ sfResult = NoValue
  /\ netRequests = 0

\* No call of filterLinks is under way.
FilterIdle ==
  /\ flLinks = <<>>
  /\ flBaseUrl = NotYet
  /\ flOptions = NotYet
  /\ flOnce = <<>>
  /\ flTwice = <<>>
  /\ flApplied = 0

NoCall == [op |-> "none"]

\* A cache just created, cache.ts 14: an empty Map.
CacheIdle ==
  /\ cache = [k \in {} |-> 0]
  /\ now = 0
  /\ lastCall = NoCall

\* scraper.ts 41: let html = "", before any fetch
NoContent == [html |-> FALSE, markdownLength |-> 0, links |-> 0, title |-> FALSE]

\* No call of scrapeUrl is under way.
ScrapeIdle ==
  /\ scOptions = NotYet
  /\ scPc = "idle"
  /\ scFetchError = "null"
  /\ scContent = NoContent
  /\ scResult = NoValue

\* No call of detectContentType has been made.
DetectIdle ==
  /\ dtHost = NotYet
  /\ dtMetrics = NotYet
  /\ dtResult = NoValue

NoTimers == [n \in {} |-> 0]

\* No call of jsDomFetch is under way.
JsdomIdle ==
  /\ jdTimeout = NotYet
  /\ jdPc = "idle"
  /\ jdWindow = "none"
  /\ jdLoad = "none"
  /\ jdTimers = NoTimers
  /\ jdNow = 0
  /\ jdRace = "pending"
  /\ jdResult = NoValue

notJsdomVars ==
  <<crawlVars, otherPc, fetchVars, filterVars, cacheVars, scrapeVars,
    detectVars, rateVars>>

\* the callers of acquire
Callers == {"c1", "c2"}
Idle == [st |-> "idle"]

\* No rate limiter has been created.
RateIdle ==
  /\ rlDefaultRule = NotYet
  /\ rlRules = [d \in {} |-> 0]
  /\ rlNow = 0
  /\ rlWaiters = [c \in Callers |-> Idle]
  /\ rlLastOp = NoCall

notRateVars ==
  <<crawlVars, otherPc, fetchVars, filterVars, cacheVars, scrapeVars,
    detectVars, jsdomVars>>

\* lines 396-417: the state crawlUrl builds for startUrl, while no other
\* call of crawlUrl has been made in the process
CrawlStart ==
  /\ otherPc = "notCalled"
  /\ visited = {}
  /\ queue = <<startUrl>>
  /\ results = <<>>
  /\ errors = <<>>
  /\ depth = [u \in {startUrl} |-> 0]
  /\ pagesProcessed = 0
  /\ domainCounts = [d \in Domains |-> 0]
  /\ lastProcessed = [d \in {} |-> 0]
  /\ failedUrlsCache = [u \in {} |-> "x"]
  /\ seenUrlsCache = {}
  /\ activePromises = <<>>
  /\ pcMain = "loop"
  /\ result = NoResult
  /\ dispatchCount = [u \in Urls |-> 0]
  /\ outcome = [u \in Urls |-> NoOutcome]
  /\ runs = 1
  /\ rejected = {}

Init ==
  /\ startUrl \in Seeds
  /\ options \in OptionSpace
  /\ CrawlStart
  /\ RateIdle
  /\ JsdomIdle
  /\ FetchIdle
  /\ FilterIdle
  /\ CacheIdle
  /\ ScrapeIdle
  /\ DetectIdle


(***************************************************************************)
(* filterLinks, link-extractor.ts 67-196: unparsable links go, external    *)
(* hosts go unless allowed, and the include and exclude patterns decide.   *)
(***************************************************************************)
Patterns == {"*", "/p", "a.com/*"}

\* lines 109-130 and 144-165: "*" and patterns with a wildcard are tested
\* as an unanchored regular expression, other patterns as a substring
Matches(pattern, link) ==
  CASE pattern = "*" -> TRUE
    [] pattern = "/p" -> link \in {PageA1, PageA2, PageA3, PageB2, PageZ1, PageV1, PageV2}
    [] pattern = "a.com/*" -> link \in {HomeA, PageA1, PageA2, PageA3}
    [] OTHER -> FALSE

\* lines 80-82: the default include pattern
IncludePatterns(opts) ==
  IF opts.includePatterns = {} THEN {"*"} ELSE opts.includePatterns

\* the hostname of the link is not compared with the base hostname
KeepLinkWith_AllowsExternal(link, baseUrl, opts) ==
  /\ UrlToString(link) # Invalid
  /\ \E pattern \in IncludePatterns(opts) : Matches(pattern, link)
  /\ ~(\E pattern \in opts.excludePatterns : Matches(pattern, link))
\* lines 92-181: the callback of links.filter
KeepLinkWith(link, baseUrl, opts) ==
  /\ UrlToString(link) # Invalid
  /\ (opts.allowExternalDomains \/ getDomain(link) = getDomain(baseUrl))
  /\ \E pattern \in IncludePatterns(opts) : Matches(pattern, link)
  /\ ~(\E pattern \in opts.excludePatterns : Matches(pattern, link))

\* the first link that passes is lost
filterLinksWith_LosesFirst(links, baseUrl, opts) ==
  LET kept == SelectSeq(links, LAMBDA link : KeepLinkWith(link, baseUrl, opts))
  IN IF kept = <<>> THEN kept ELSE Tail(kept)

\* lines 67-196
filterLinksWith(links, baseUrl, opts) ==
  SelectSeq(links, LAMBDA link : KeepLinkWith(link, baseUrl, opts))

\* lines 677-681: crawlUrl is called without patterns here, so processUrl
\* passes the default include pattern ["*"] and no exclude patterns
KeepLink(link, baseUrl) ==
  KeepLinkWith(link, baseUrl,
               [includePatterns |-> {}, excludePatterns |-> {},
                allowExternalDomains |-> options.allowExternalDomains])

filterLinks(links, baseUrl) ==
  SelectSeq(links, LAMBDA link : KeepLink(link, baseUrl))

(***************************************************************************)
(* Batch formation, crawler.ts 430-465.                                    *)
(***************************************************************************)
DomainCount(domain) ==
  IF domain \in DOMAIN domainCounts THEN domainCounts[domain] ELSE 0

\* line 440: already visited or in the failed cache
AlreadyHandled(url, vis) == url \in vis \/ url \in DOMAIN failedUrlsCache

\* the limit compared with > instead of >=
DomainSaturated_OffByOne(domain) ==
  DomainCount(domain) > options.domainConcurrency

\* line 448-449: the domain is already at its concurrency limit
DomainSaturated(domain) == DomainCount(domain) >= options.domainConcurrency

\* the selected URL is not added to visited
MarkVisited_Forgotten(vis, url) == vis

\* line 464
MarkVisited(vis, url) == vis \cup {url}

\* lines 454-457: domainBatches is a Map, kept in insertion order
AddToBatch(db, domain, url) ==
  IF \E k \in 1..Len(db) : db[k].domain = domain
  THEN [k \in 1..Len(db) |->
          IF db[k].domain = domain
          THEN [db[k] EXCEPT !.urls = Append(@, url)]
          ELSE db[k]]
  ELSE Append(db, [domain |-> domain, urls |-> <<url>>])

RECURSIVE GroupByDomain(_, _, _, _)
GroupByDomain(q, i, vis, db) ==
  IF i > Len(q) \/ Len(db) >= options.concurrency
  THEN [queue |-> q, visited |-> vis, domainBatches |-> db]
  ELSE LET url == q[i]
           domain == getDomain(url)
       IN IF AlreadyHandled(url, vis)
          THEN GroupByDomain(RemoveAt(q, i), i, vis, db)
          ELSE IF DomainSaturated(domain)
          THEN GroupByDomain(q, i + 1, vis, db)
          ELSE GroupByDomain(RemoveAt(q, i), i, MarkVisited(vis, url),
                             AddToBatch(db, domain, url))

(***************************************************************************)
(* Dispatch, crawler.ts 499-566: the counter is raised by the batch size   *)
(* and the unit is handed to the limiter, where it waits ("queued") until  *)
(* fewer than `concurrency` units are running.                             *)
(***************************************************************************)
NewUnit(b) ==
  [domain |-> b.domain, urls |-> b.urls, idx |-> 1, st |-> "queued",
   timer |-> 0, completed |-> FALSE]

RECURSIVE RaiseCounts(_, _, _)
RaiseCounts(counts, db, k) ==
  IF k > Len(db) THEN counts
  ELSE RaiseCounts([counts EXCEPT ![db[k].domain] = @ + Len(db[k].urls)],
                   db, k + 1)

BatchedUrls(db) == UNION {SeqToSet(db[k].urls) : k \in 1..Len(db)}

\* the summary flag ignores the error log
CompileResult_AlwaysSuccess(q) ==
  [returned |-> TRUE,
   success |-> TRUE,
   status |-> IF Len(q) > 0 THEN "incomplete" ELSE "completed",
   total |-> Cardinality(visited) + Len(q),
   completed |-> pagesProcessed,
   data |-> results,
   remaining |-> Len(q)]

\* lines 616-624
CompileResult(q) ==
  [returned |-> TRUE,
   success |-> Len(errors) = 0,
   status |-> IF Len(q) > 0 THEN "incomplete" ELSE "completed",
   total |-> Cardinality(visited) + Len(q),
   completed |-> pagesProcessed,
   data |-> results,
   remaining |-> Len(q)]

\* the loop stops on an empty queue although promises are active
LoopCondition_QueueOnly ==
  /\ pagesProcessed < options.maxPages
  /\ Len(queue) > 0

\* line 428
LoopCondition ==
  /\ pagesProcessed < options.maxPages
  /\ (Len(queue) > 0 \/ Len(activePromises) > 0)

\* lines 590-625: leave the loop with queue q
LeaveLoop(q) ==
  /\ queue' = q
  /\ IF Len(activePromises) > 0
     THEN pcMain' = "final" /\ result' = result
     ELSE pcMain' = "returned" /\ result' = CompileResult(q)
  /\ UNCHANGED <<visited, domainCounts, activePromises, dispatchCount>>

\* One iteration of the main loop, up to its next await, break or loop head.
MainLoop ==
  /\ pcMain = "loop"
  /\ IF ~LoopCondition
     THEN LeaveLoop(queue)
     ELSE LET g == GroupByDomain(queue, 1, visited, <<>>)
              db == g.domainBatches
          IN IF Len(db) = 0 /\ Len(activePromises) > 0
             THEN /\ queue' = g.queue
                  /\ pcMain' = "race"
                  /\ UNCHANGED <<visited, domainCounts, activePromises,
                                 result, dispatchCount>>
             ELSE IF Len(db) = 0
             THEN LeaveLoop(g.queue)
             ELSE /\ queue' = g.queue
                  /\ visited' = g.visited
                  /\ domainCounts' = RaiseCounts(domainCounts, db, 1)
                  /\ activePromises' =
                       activePromises \o [k \in 1..Len(db) |-> NewUnit(db[k])]
                  /\ dispatchCount' =
                       [u \in Urls |-> IF u \in BatchedUrls(db)
                                       THEN dispatchCount[u] + 1
                                       ELSE dispatchCount[u]]
                  /\ pcMain' = IF Len(activePromises') > options.concurrency * 2
                               THEN "race" ELSE "loop"
                  /\ result' = result
  /\ UNCHANGED <<startUrl, options, results, errors, depth, pagesProcessed,
                 lastProcessed, failedUrlsCache, seenUrlsCache, outcome, runs, rejected>>
  /\ UNCHANGED notCrawlVars

\* lines 475-487 and 576-586: the race is over, completed promises are dropped
SomeSettled == \E k \in 1..Len(activePromises) : activePromises[k].st = "done"
AllSettled == \A k \in 1..Len(activePromises) : activePromises[k].st = "done"

\* the filter drops every promise, completed or not
StillActive_DropAll(p) == FALSE

\* nothing is ever dropped from activePromises
StillActive_KeepAll(p) == TRUE

\* lines 484 and 585: the filter over completedPromises
StillActive(p) == ~p.completed

RaceResumes ==
  /\ pcMain = "race"
  /\ SomeSettled
  /\ activePromises' = SelectSeq(activePromises, StillActive)
  /\ pcMain' = "loop"
  /\ UNCHANGED <<startUrl, options, visited, queue, results, errors, depth,
                 pagesProcessed, domainCounts, lastProcessed, failedUrlsCache,
                 seenUrlsCache, result, dispatchCount, outcome, runs, rejected>>
  /\ UNCHANGED notCrawlVars

\* lines 598-625: allSettled is over, the result is compiled
Return ==
  /\ pcMain = "final"
  /\ AllSettled
  /\ pcMain' = "returned"
  /\ result' = CompileResult(queue)
  /\ UNCHANGED <<startUrl, options, visited, queue, results, errors, depth,
                 pagesProcessed, domainCounts, lastProcessed, failedUrlsCache,
                 seenUrlsCache, activePromises, dispatchCount, outcome, runs, rejected>>
  /\ UNCHANGED notCrawlVars


(***************************************************************************)
(* The domain-batch unit, crawler.ts 504-556, and processUrl, 630-757.     *)
(***************************************************************************)
DepthOf(url) == IF url \in DOMAIN depth THEN depth[url] ELSE 0

\* line 550: lastProcessed.set(domain, Date.now()); the entry's age is 0
Stamp(lp, domain) ==
  [d \in (DOMAIN lp) \cup {domain} |-> IF d = domain THEN 0 ELSE lp[d]]

\* lines 521-524: an entry exists and is younger than domainDelay
NeedsDelay(lp, domain) ==
  domain \in DOMAIN lp /\ lp[domain] < options.domainDelay

\* a failure ends the for loop: the rest of the batch is dropped
ContinueAfter_AbortOnFailure(unit, o) ==
  IF o = "fail" THEN Len(unit.urls) + 1 ELSE unit.idx + 1

\* the for loop steps over the URL that follows the processed one
ContinueAfter_SkipsNext(unit, o) == unit.idx + 2
\* line 507: the for loop goes on to the next URL whatever happened to this
\* one, because the try/catch of 535-547 is inside the loop
ContinueAfter(unit, o) == unit.idx + 1

\* From the head of the for loop at index i up to the unit's next await
\* (the delay timer, 526, or scrapeUrl, 650) or its end (the finally, 554).
RECURSIVE RunUnit(_, _, _)
RunUnit(unit, i, lp) ==
  IF i > Len(unit.urls)
  THEN [unit |-> [unit EXCEPT !.idx = i, !.st = "done", !.completed = TRUE],
        lastProcessed |-> lp]
  ELSE LET url == unit.urls[i] IN
       IF DepthOf(url) > options.maxDepth
       THEN RunUnit(unit, i + 1, lp)
       ELSE IF NeedsDelay(lp, unit.domain)
       THEN [unit |-> [unit EXCEPT !.idx = i, !.st = "delay",
                          !.timer = options.domainDelay - lp[unit.domain]],
             lastProcessed |-> lp]
       ELSE IF url \in DOMAIN failedUrlsCache
       THEN RunUnit(unit, i + 1, Stamp(lp, unit.domain))
       ELSE [unit |-> [unit EXCEPT !.idx = i, !.st = "fetching"],
             lastProcessed |-> lp]

\* the finally block is missing: the counter is never released
LowerCount_Never(counts, unit) == counts

\* the finally block lowers the counter by one, not by the batch size
LowerCount_ByOne(counts, unit) ==
  [counts EXCEPT ![unit.domain] = Max(0, @ - 1)]
\* line 554: the finally block of a finished unit
LowerCount(counts, unit) ==
  [counts EXCEPT ![unit.domain] = Max(0, @ - Len(unit.urls))]

Running(p) == p.st \in {"delay", "fetching"}
RunningCount ==
  Cardinality({k \in 1..Len(activePromises) : Running(activePromises[k])})

\* the limiter starts a waiting unit whatever the number of running ones
Startable_Unlimited(k) ==
  /\ activePromises[k].st = "queued"
  /\ \A j \in 1..(k - 1) : activePromises[j].st # "queued"
\* p-limit starts the longest-waiting unit when a slot is free
Startable(k) ==
  /\ activePromises[k].st = "queued"
  /\ \A j \in 1..(k - 1) : activePromises[j].st # "queued"
  /\ RunningCount < options.concurrency

MainSuspended == pcMain \in {"race", "final"}

\* A promise reaction is ready to run: it runs before any timer or I/O event.
MicrotaskPending ==
  \/ pcMain = "race" /\ SomeSettled
  \/ pcMain = "final" /\ AllSettled
  \/ \E k \in 1..Len(activePromises) : Startable(k)

\* The state after unit k moved on to r (a result of RunUnit).
UnitMoves(k, r) ==
  /\ activePromises' = [activePromises EXCEPT ![k] = r.unit]
  /\ lastProcessed' = r.lastProcessed
  /\ domainCounts' = IF r.unit.st = "done"
                     THEN LowerCount(domainCounts, r.unit)
                     ELSE domainCounts

StartUnit(k) ==
  /\ MainSuspended
  /\ Startable(k)
  /\ UnitMoves(k, RunUnit(activePromises[k], 1, lastProcessed))
  /\ UNCHANGED <<startUrl, options, visited, queue, results, errors, depth,
                 pagesProcessed, failedUrlsCache, seenUrlsCache, pcMain,
                 result, dispatchCount, outcome, runs, rejected>>
  /\ UNCHANGED notCrawlVars

\* line 526 resumes: processUrl is entered (642-650)
TimerFires(k) ==
  /\ MainSuspended /\ ~MicrotaskPending
  /\ activePromises[k].st = "delay"
  /\ activePromises[k].timer = 0
  /\ LET unit == activePromises[k]
         url == unit.urls[unit.idx]
     IN IF url \in DOMAIN failedUrlsCache
        THEN UnitMoves(k, RunUnit(unit, unit.idx + 1,
                                  Stamp(lastProcessed, unit.domain)))
        ELSE UnitMoves(k, [unit |-> [unit EXCEPT !.st = "fetching"],
                           lastProcessed |-> lastProcessed])
  /\ UNCHANGED <<startUrl, options, visited, queue, results, errors, depth,
                 pagesProcessed, failedUrlsCache, seenUrlsCache, pcMain,
                 result, dispatchCount, outcome, runs, rejected>>
  /\ UNCHANGED notCrawlVars

\* One unit of time passes: timestamps age, pending timers come closer.
Tick ==
  /\ MainSuspended /\ ~MicrotaskPending
  /\ \/ \E d \in DOMAIN lastProcessed : lastProcessed[d] < options.domainDelay
     \/ \E k \in 1..Len(activePromises) : activePromises[k].timer > 0
  /\ lastProcessed' = [d \in DOMAIN lastProcessed |->
                         Min(lastProcessed[d] + 1, options.domainDelay)]
  /\ activePromises' = [k \in 1..Len(activePromises) |->
                         [activePromises[k] EXCEPT !.timer = Max(@ - 1, 0)]]
  /\ UNCHANGED <<startUrl, options, visited, queue, results, errors, depth,
                 pagesProcessed, domainCounts, failedUrlsCache, seenUrlsCache,
                 pcMain, result, dispatchCount, outcome, runs, rejected>>
  /\ UNCHANGED notCrawlVars

\* no link is ever skipped: every discovery enqueues and sets the depth
ShouldSkipLink_Never(normalizedUrl, q, seen) == FALSE
\* only the visited set is consulted
ShouldSkipLink_VisitedOnly(normalizedUrl, q, seen) == normalizedUrl \in visited

\* only the failed cache is consulted
ShouldSkipLink_FailedOnly(normalizedUrl, q, seen) ==
  normalizedUrl \in DOMAIN failedUrlsCache
\* only the queue is consulted
ShouldSkipLink_QueueOnly(normalizedUrl, q, seen) ==
  normalizedUrl \in SeqToSet(q)

\* lines 696-701
ShouldSkipLink(normalizedUrl, q, seen) ==
  \/ normalizedUrl \in visited
  \/ normalizedUrl \in SeqToSet(q)
  \/ normalizedUrl \in DOMAIN failedUrlsCache
  \/ normalizedUrl \in seen

\* links are followed from pages at maxDepth as well
MayFollowLinks_Inclusive(d) == d <= options.maxDepth

\* line 669
MayFollowLinks(d) == d < options.maxDepth

\* line 710
SetDepth(dep, url, d) ==
  [u \in (DOMAIN dep) \cup {url} |-> IF u = url THEN d ELSE dep[u]]

\* lines 690-723
RECURSIVE EnqueueLinks(_, _, _, _, _, _, _)
EnqueueLinks(links, i, d, q, dep, seen, rej) ==
  IF i > Len(links)
  THEN [queue |-> q, depth |-> dep, seen |-> seen, rejected |-> rej]
  ELSE LET normalizedUrl == UrlToString(links[i]) IN
       IF normalizedUrl = Invalid
       THEN EnqueueLinks(links, i + 1, d, q, dep, seen, rej)
       ELSE IF ShouldSkipLink(normalizedUrl, q, seen)
       THEN EnqueueLinks(links, i + 1, d, q, dep, seen,
                         rej \cup {<<normalizedUrl,
                                     normalizedUrl \in DOMAIN failedUrlsCache>>})
       ELSE EnqueueLinks(links, i + 1, d, Append(q, normalizedUrl),
                         SetDepth(dep, normalizedUrl, d + 1),
                         seen \cup {normalizedUrl}, rej)

\* failures are counted as processed pages too
CountsAsProcessed_Any(o) == o \in {"ok", "fail"}

\* line 659 and 662: only a successful scrape counts as a processed page
CountsAsProcessed(o) == o = "ok"

\* the failure branch is missing: nothing is recorded
RecordedAsFailure_Never(o) == FALSE

\* line 732: the outcome that is recorded as a failure
RecordedAsFailure(o) == o = "fail"

\* scrapeResult.error of the failed scrape of url
ErrorOf(url) == <<"error", url>>

\* scrapeUrl settles (650): processUrl records the outcome, the unit stamps
\* the domain and runs on to its next await or its end.
ScrapeReturns(k, o) ==
  /\ MainSuspended /\ ~MicrotaskPending
  /\ activePromises[k].st = "fetching"
  /\ o \in OutcomesOf(activePromises[k].urls[activePromises[k].idx])
  /\ LET unit == activePromises[k]
         url == unit.urls[unit.idx]
         d == DepthOf(url)
     IN \E e \in {IF o = "ok" /\ MayFollowLinks(d)
                   THEN EnqueueLinks(filterLinks(PageLinks(url), url), 1, d,
                                     queue, depth, seenUrlsCache, rejected)
                   ELSE [queue |-> queue, depth |-> depth,
                         seen |-> seenUrlsCache, rejected |-> rejected]} :
        /\ results' = IF o = "ok"
                      THEN Append(results, [url |-> url, depth |-> d])
                      ELSE results
        /\ pagesProcessed' = IF CountsAsProcessed(o)
                             THEN pagesProcessed + 1 ELSE pagesProcessed
        /\ queue' = e.queue
        /\ depth' = e.depth
        /\ seenUrlsCache' = e.seen
        /\ rejected' = e.rejected
        /\ failedUrlsCache' =
             IF RecordedAsFailure(o)
             THEN [u \in (DOMAIN failedUrlsCache) \cup {url} |->
                     IF u = url THEN ErrorOf(url) ELSE failedUrlsCache[u]]
             ELSE failedUrlsCache
        /\ errors' = IF RecordedAsFailure(o)
                     THEN Append(errors, ErrorOf(url))
                     ELSE errors
        /\ outcome' = [outcome EXCEPT ![url] = o]
        /\ UnitMoves(k, RunUnit(unit, ContinueAfter(unit, o),
                                Stamp(lastProcessed, unit.domain)))
  /\ UNCHANGED <<startUrl, options, visited, pcMain, result, dispatchCount,
                 runs>>
  /\ UNCHANGED notCrawlVars

\* the entries of the cache survive the call
clear_KeepsEntries(c) == c

\* createCache.clear, part_009 121-125: the cache has no entries afterwards
clear(c) == [u \in {} |-> "x"]

\* The caller repeats the call of crawlUrl after the previous call returned
\* (384-417): the failed cache is cleared, the seen cache is kept.
CrawlAgain ==
  /\ pcMain = "returned"
  /\ runs < MaxRuns
  /\ runs' = runs + 1
  /\ visited' = {}
  /\ queue' = <<startUrl>>
  /\ results' = <<>>
  /\ errors' = <<>>
  /\ depth' = [u \in {startUrl} |-> 0]
  /\ pagesProcessed' = 0
  /\ domainCounts' = [d \in Domains |-> 0]
  /\ lastProcessed' = [d \in {} |-> 0]
  /\ failedUrlsCache' = clear(failedUrlsCache)
  /\ activePromises' = <<>>
  /\ pcMain' = "loop"
  /\ result' = NoResult
  /\ dispatchCount' = [u \in Urls |-> 0]
  /\ outcome' = [u \in Urls |-> NoOutcome]
  /\ rejected' = {}
  /\ UNCHANGED <<startUrl, options, seenUrlsCache>>
  /\ UNCHANGED notCrawlVars

UnitStarts == \E k \in 1..Len(activePromises) : StartUnit(k)
DelayEnds == \E k \in 1..Len(activePromises) : TimerFires(k)
ScrapeSettles ==
  \E k \in 1..Len(activePromises), o \in Outcomes : ScrapeReturns(k, o)

Next ==
  \/ MainLoop
  \/ RaceResumes
  \/ Return
  \/ UnitStarts
  \/ DelayEnds
  \/ ScrapeSettles
  \/ Tick
  \/ CrawlAgain

Spec == Init /\ [][Next]_vars

(***************************************************************************)
(* A second call of crawlUrl in the same process, made while the first is  *)
(* suspended: crawlUrl(PageA1, {maxDepth: 1, maxPages: 1}).  It has a      *)
(* CrawlState of its own (404-414); of its steps the model keeps the ones  *)
(* that write the module-level caches of 352-356.                          *)
(***************************************************************************)
OtherSeed == PageA1

\* lines 384-417 and 428-475: the call clears the failed cache, dispatches
\* its seed and waits on the race
OtherRunStarts ==
  /\ MainSuspended /\ ~MicrotaskPending
  /\ otherPc = "notCalled"
  /\ otherPc' = "fetching"
  /\ failedUrlsCache' = clear(failedUrlsCache)
  /\ UNCHANGED <<startUrl, options, visited, queue, results, errors, depth,
                 pagesProcessed, domainCounts, lastProcessed, seenUrlsCache,
                 activePromises, pcMain, result, dispatchCount, outcome,
                 runs, rejected>>
  /\ UNCHANGED libraryVars

\* lines 690-712 in the second call: its visited set holds its seed, its
\* queue is empty, and the failed and the seen cache are the shared ones
RECURSIVE OtherEnqueues(_, _, _)
OtherEnqueues(links, i, seen) ==
  IF i > Len(links) THEN seen
  ELSE LET normalizedUrl == UrlToString(links[i]) IN
       IF \/ normalizedUrl = Invalid
          \/ normalizedUrl = OtherSeed
          \/ normalizedUrl \in DOMAIN failedUrlsCache
          \/ normalizedUrl \in seen
       THEN OtherEnqueues(links, i + 1, seen)
       ELSE OtherEnqueues(links, i + 1, seen \cup {normalizedUrl})

\* lines 650-740 in the second call: scrapeUrl of its seed settled; after
\* a success the page budget is used up and the call returns
OtherRunSettles ==
  /\ MainSuspended /\ ~MicrotaskPending
  /\ otherPc = "fetching"
  /\ otherPc' = "returned"
  /\ \E o \in {"ok", "fail"} :
       IF o = "ok"
       THEN /\ seenUrlsCache' =
                 OtherEnqueues(filterLinks(PageLinks(OtherSeed), OtherSeed),
                               1, seenUrlsCache)
            /\ failedUrlsCache' = failedUrlsCache
       ELSE /\ failedUrlsCache' =
                 [u \in (DOMAIN failedUrlsCache) \cup {OtherSeed} |->
                    IF u = OtherSeed THEN ErrorOf(OtherSeed)
                    ELSE failedUrlsCache[u]]
            /\ seenUrlsCache' = seenUrlsCache
  /\ UNCHANGED <<startUrl, options, visited, queue, results, errors, depth,
                 pagesProcessed, domainCounts, lastProcessed,
                 activePromises, pcMain, result, dispatchCount, outcome,
                 runs, rejected>>
  /\ UNCHANGED libraryVars

\* the first call with the page budget and the depth to reach p3
ConcurrentInit ==
  /\ startUrl = HomeA
  /\ options \in {o \in OptionSpace :
                    /\ o.maxDepth = 2
                    /\ o.maxPages = 3
                    /\ ~o.allowExternalDomains}
  /\ CrawlStart
  /\ RateIdle
  /\ JsdomIdle
  /\ FetchIdle
  /\ FilterIdle
  /\ CacheIdle
  /\ ScrapeIdle
  /\ DetectIdle

ConcurrentNext ==
  \/ MainLoop
  \/ RaceResumes
  \/ Return
  \/ UnitStarts
  \/ DelayEnds
  \/ ScrapeSettles
  \/ Tick
  \/ OtherRunStarts
  \/ OtherRunSettles

ConcurrentSpec == ConcurrentInit /\ [][ConcurrentNext]_vars

\* crawlUrl called on the hub, whose links are followed one level deep
WideInit ==
  /\ startUrl = HomeZ
  /\ options \in {o \in OptionSpace :
                    /\ o.maxDepth = 1
                    /\ o.maxPages = 3
                    /\ o.concurrency = 2
                    /\ o.domainConcurrency = 2
                    /\ o.allowExternalDomains}
  /\ CrawlStart
  /\ RateIdle
  /\ JsdomIdle
  /\ FetchIdle
  /\ FilterIdle
  /\ CacheIdle
  /\ ScrapeIdle
  /\ DetectIdle

WideSpec == WideInit /\ [][Next]_vars

(***************************************************************************)
(* smartFetch, simpleFetch and jsDomFetch, part_012 lines 11-50, 136-487.  *)
(* Every fetch(url) is a request of its own: what a second request gives   *)
(* is independent of what the first one gave.                              *)
(***************************************************************************)
KNOWN_STATIC_DOMAINS == {"example.com"}
KNOWN_JS_HEAVY_DOMAINS == {"bun.sh"}
FetchHosts == {"example.com", "bun.sh", "a.com"}
Lengths == 0..MaxHtmlLength

\* lines 34-50
quickContentTypeCheck(host) ==
  IF host \in KNOWN_STATIC_DOMAINS
  THEN [skip |-> TRUE, needsJavaScript |-> "false"]
  ELSE IF host \in KNOWN_JS_HEAVY_DOMAINS
  THEN [skip |-> TRUE, needsJavaScript |-> "true"]
  ELSE [skip |-> FALSE, needsJavaScript |-> "undefined"]

\* lines 136-187: simpleFetch resolves with HTML or throws
SimpleFetchOutcomes(from) ==
  {ThrownValue} \cup {Html(from, n) : n \in Lengths}

\* any growth counts as an enhancement
Enhanced_AnyGrowth(simpleLength, jsdomLength) == jsdomLength > simpleLength

\* lines 368 and 439: jsdomResult.html.length > simpleResult.html.length * 1.1
Enhanced(simpleLength, jsdomLength) == 10 * jsdomLength > 11 * simpleLength

Returned(html, usedJsdom) ==
  [kind |-> "returned", html |-> html, usedJsdom |-> usedJsdom]

\* lines 408-412: the error of smartFetch's own simpleFetch call
ThrewSimpleError == [kind |-> "thrown", error |-> "simpleFetch"]

\* lines 365-386, 399-413 and 431-466: what smartFetch does with the
\* outcome j of jsDomFetch
AfterJsDomFetch(j) ==
  IF simpleResult = ThrownValue
  THEN IF j = ThrownValue THEN ThrewSimpleError ELSE Returned(j, TRUE)
  ELSE IF j # ThrownValue /\ Enhanced(simpleResult.len, j.len)
       THEN Returned(j, TRUE)
       ELSE Returned(simpleResult, FALSE)

FetchInit ==
  /\ startUrl = HomeA
  /\ options = CHOOSE o \in OptionSpace : TRUE
  /\ CrawlStart
  /\ RateIdle
  /\ JsdomIdle
  /\ FilterIdle
  /\ CacheIdle
  /\ ScrapeIdle
  /\ DetectIdle
  /\ sfHost \in FetchHosts
  /\ sfPc = "idle"
  /\ simpleResult = NoValue
  /\ initialHtml = NoValue
  /\ jsdomResult = NoValue
  /\ sfResult = NoValue
  /\ netRequests = 0

\* lines 329-362 and 388-395: smartFetch is called and awaits simpleFetch,
\* which requests the url (150)
CallSmartFetch ==
  /\ sfPc = "idle"
  /\ sfPc' = "simpleFetch"
  /\ netRequests' = netRequests + 1
  /\ UNCHANGED <<sfHost, simpleResult, initialHtml, jsdomResult, sfResult>>
  /\ UNCHANGED notFetchVars

\* line 365, 402 or 432: jsDomFetch is called; it awaits a simpleFetch of
\* its own (236), which requests the url again
CallJsDomFetch ==
  /\ sfPc' = "jsDomFetch.simpleFetch"
  /\ netRequests' = netRequests + 1
  /\ sfResult' = sfResult

SmartFetchEnds(r) ==
  /\ sfPc' = "done"
  /\ sfResult' = r
  /\ netRequests' = netRequests

\* lines 346-363 and 395-425: smartFetch's simpleFetch settled
SimpleFetchSettles ==
  /\ sfPc = "simpleFetch"
  /\ \E r \in SimpleFetchOutcomes("simpleFetch"), needsJavaScript \in BOOLEAN :
       /\ simpleResult' = r
       /\ LET quickCheck == quickContentTypeCheck(sfHost) IN
          IF quickCheck.skip /\ quickCheck.needsJavaScript # "undefined"
          THEN IF r = ThrownValue
               THEN SmartFetchEnds(ThrewSimpleError)
               ELSE IF quickCheck.needsJavaScript = "false"
               THEN SmartFetchEnds(Returned(r, FALSE))
               ELSE CallJsDomFetch
          ELSE IF r = ThrownValue
               THEN CallJsDomFetch
               ELSE IF ~needsJavaScript
               THEN SmartFetchEnds(Returned(r, FALSE))
               ELSE CallJsDomFetch
  /\ UNCHANGED <<sfHost, initialHtml, jsdomResult>>
  /\ UNCHANGED notFetchVars

\* lines 236-247: jsDomFetch's simpleFetch settled; when it threw, or when
\* new JSDOM throws, jsDomFetch throws (318-322)
JsDomFetchSimpleSettles ==
  /\ sfPc = "jsDomFetch.simpleFetch"
  /\ \E r \in SimpleFetchOutcomes("jsDomFetch"), constructed \in BOOLEAN :
       IF r = ThrownValue \/ ~constructed
       THEN /\ initialHtml' = r
            /\ jsdomResult' = ThrownValue
            /\ SmartFetchEnds(AfterJsDomFetch(ThrownValue))
       ELSE /\ initialHtml' = r
            /\ jsdomResult' = jsdomResult
            /\ sfPc' = "jsDomFetch.render"
            /\ UNCHANGED <<sfResult, netRequests>>
  /\ UNCHANGED <<sfHost, simpleResult>>
  /\ UNCHANGED notFetchVars

\* lines 256-316: the race is over; jsDomFetch returns the serialized DOM,
\* or initialHtml when the render timed out or the serialization failed
RenderSettles ==
  /\ sfPc = "jsDomFetch.render"
  /\ \E j \in {initialHtml} \cup {Html("jsdom", n) : n \in Lengths} :
       /\ jsdomResult' = j
       /\ SmartFetchEnds(AfterJsDomFetch(j))
  /\ UNCHANGED <<sfHost, simpleResult, initialHtml>>
  /\ UNCHANGED notFetchVars

FetchNext ==
  \/ CallSmartFetch
  \/ SimpleFetchSettles
  \/ JsDomFetchSimpleSettles
  \/ RenderSettles

FetchSpec == FetchInit /\ [][FetchNext]_vars

(***************************************************************************)
(* filterLinks applied to its own output, link-extractor.ts 67-196.        *)
(***************************************************************************)
FilterLinkUniverse ==
  {HomeA, HomeANoSlash, PageA1, PageA2, PageA3, HomeB, BadLink}

LinkLists == UNION {[1..n -> FilterLinkUniverse] : n \in 0..MaxLinks}

FilterOptionSpace ==
  [includePatterns : SUBSET Patterns,
   excludePatterns : SUBSET Patterns,
   allowExternalDomains : BOOLEAN]

FilterInit ==
  /\ startUrl = HomeA
  /\ options = CHOOSE o \in OptionSpace : TRUE
  /\ CrawlStart
  /\ RateIdle
  /\ JsdomIdle
  /\ FetchIdle
  /\ CacheIdle
  /\ ScrapeIdle
  /\ DetectIdle
  /\ flLinks \in LinkLists
  /\ flBaseUrl \in {HomeA, HomeB}
  /\ flOptions \in FilterOptionSpace
  /\ flOnce = <<>>
  /\ flTwice = <<>>
  /\ flApplied = 0

\* filterLinks(links, baseUrl, options)
FilterOnce ==
  /\ flApplied = 0
  /\ flOnce' = filterLinksWith(flLinks, flBaseUrl, flOptions)
  /\ flApplied' = 1
  /\ UNCHANGED <<flLinks, flBaseUrl, flOptions, flTwice>>
  /\ UNCHANGED notFilterVars

\* filterLinks called on the list the first call returned
FilterAgain ==
  /\ flApplied = 1
  /\ flTwice' = filterLinksWith(flOnce, flBaseUrl, flOptions)
  /\ flApplied' = 2
  /\ UNCHANGED <<flLinks, flBaseUrl, flOptions, flOnce>>
  /\ UNCHANGED notFilterVars

FilterNext ==
  \/ FilterOnce
  \/ FilterAgain

FilterSpec == FilterInit /\ [][FilterNext]_vars

(***************************************************************************)
(* The TTL cache, utils/cache.ts 14-106 (part_009 is the same store with   *)
(* hit and miss counters).  Time is Date.now(), in units of the clock.     *)
(***************************************************************************)
CacheKeys == {"k1", "k2"}
CacheValues == {"v1", "v2"}
Ttls == 0..MaxTtl

\* what get returns: undefined, or the stored value
Absent == [found |-> FALSE]
Found(value) == [found |-> TRUE, value |-> value]

\* an entry never counts as expired
Expired_Never(item, t) == FALSE

\* lines 34 and 52: Date.now() > item.expiry
Expired(item, t) == t > item.expiry

\* Map.delete(key)
Delete(c, key) == [k \in (DOMAIN c) \ {key} |-> c[k]]

\* lines 19-22
set(c, key, value, ttlMs, t) ==
  [k \in (DOMAIN c) \cup {key} |->
     IF k = key THEN [value |-> value, expiry |-> t + ttlMs] ELSE c[k]]

\* lines 27-40
get(c, key, t) ==
  IF key \notin DOMAIN c
  THEN [cache |-> c, ret |-> Absent, branch |-> "missing"]
  ELSE IF Expired(c[key], t)
  THEN [cache |-> Delete(c, key), ret |-> Absent, branch |-> "expired"]
  ELSE [cache |-> c, ret |-> Found(c[key].value), branch |-> "fresh"]

\* lines 45-58
has(c, key, t) ==
  IF key \notin DOMAIN c
  THEN [cache |-> c, ret |-> FALSE, branch |-> "missing"]
  ELSE IF Expired(c[key], t)
  THEN [cache |-> Delete(c, key), ret |-> FALSE, branch |-> "expired"]
  ELSE [cache |-> c, ret |-> TRUE, branch |-> "fresh"]

\* lines 70-78
clearExpired(c, t) ==
  [k \in {j \in DOMAIN c : ~Expired(c[j], t)} |-> c[k]]

\* lines 90-92
size(c) == Cardinality(DOMAIN c)

CacheInit ==
  /\ startUrl = HomeA
  /\ options = CHOOSE o \in OptionSpace : TRUE
  /\ CrawlStart
  /\ RateIdle
  /\ JsdomIdle
  /\ FetchIdle
  /\ FilterIdle
  /\ CacheIdle
  /\ ScrapeIdle
  /\ DetectIdle

CacheSet ==
  /\ \E key \in CacheKeys, value \in CacheValues, ttlMs \in Ttls :
       /\ cache' = set(cache, key, value, ttlMs, now)
       /\ lastCall' = [op |-> "set", key |-> key, at |-> now]
  /\ UNCHANGED now
  /\ UNCHANGED notCacheVars

CacheGet ==
  /\ \E key \in CacheKeys :
       LET r == get(cache, key, now) IN
       /\ cache' = r.cache
       /\ lastCall' = [op |-> "get", key |-> key, at |-> now,
                       ret |-> r.ret, branch |-> r.branch]
  /\ UNCHANGED now
  /\ UNCHANGED notCacheVars

CacheHas ==
  /\ \E key \in CacheKeys :
       LET r == has(cache, key, now) IN
       /\ cache' = r.cache
       /\ lastCall' = [op |-> "has", key |-> key, at |-> now,
                       ret |-> r.ret, branch |-> r.branch]
  /\ UNCHANGED now
  /\ UNCHANGED notCacheVars

\* line 95: the interval timer runs clearExpired
CacheSweep ==
  /\ cache' = clearExpired(cache, now)
  /\ lastCall' = [op |-> "clearExpired", at |-> now]
  /\ UNCHANGED now
  /\ UNCHANGED notCacheVars

CacheClear ==
  /\ cache' = clear(cache)
  /\ lastCall' = [op |-> "clear", at |-> now]
  /\ UNCHANGED now
  /\ UNCHANGED notCacheVars

\* one unit of time passes
ClockTick ==
  /\ now < MaxClock
  /\ now' = now + 1
  /\ UNCHANGED <<cache, lastCall>>
  /\ UNCHANGED notCacheVars

CacheNext ==
  \/ CacheSet
  \/ CacheGet
  \/ CacheHas
  \/ CacheSweep
  \/ CacheClear
  \/ ClockTick

CacheSpec == CacheInit /\ [][CacheNext]_vars

(***************************************************************************)
(* scrapeUrl, scraper.ts 27-288.  Of the html it holds the function reads  *)
(* what the processors make of it: the markdown, the links, the title or   *)
(* description.  A hook is a function of the caller: "noop" leaves the     *)
(* result as it is, "clears" sets success to false.                        *)
(***************************************************************************)
MarkdownLengths == {0, 100, MaxMarkdownLength}

ScrapeOptionSpace ==
  [beforeTransform : {"none", "noop", "clears"},
   afterTransform : {"none", "noop"},
   markdown : BOOLEAN,
   extractLinks : BOOLEAN,
   extractMetadata : BOOLEAN]

\* what a fetched document can hold; the empty string holds nothing
PageContents ==
  {c \in [html : BOOLEAN, markdownLength : MarkdownLengths,
          links : 0..1, title : BOOLEAN] :
     ~c.html => c = NoContent}

\* lines 119-139 and 146-158: the data that the requested processors
\* produce from the html
DataOf(opts, c) ==
  [markdown |-> IF opts.markdown THEN c.markdownLength ELSE 0,
   links |-> IF opts.extractLinks THEN c.links ELSE 0,
   title |-> opts.extractMetadata /\ c.title]

\* lines 257-260
hasContent(data) ==
  \/ data.markdown > 100
  \/ data.links > 0
  \/ data.title

ScrapeResult(success, error) ==
  [kind |-> "returned", success |-> success, error |-> error]

\* lines 100-273: from the construction of the result to the return
BuildResult(opts, fetchError, c) ==
  LET success == fetchError = "null"
      error == IF fetchError # "null" THEN "Fetch issue" ELSE "none"
      hooked == IF opts.beforeTransform = "clears" THEN FALSE ELSE success
  IN IF opts.beforeTransform # "none" /\ ~hooked
     THEN ScrapeResult(hooked, error)
     ELSE IF fetchError # "null" /\ hasContent(DataOf(opts, c))
     THEN ScrapeResult(TRUE, "Partial content")
     ELSE ScrapeResult(hooked, error)

ScrapeInit ==
  /\ startUrl = HomeA
  /\ options = CHOOSE o \in OptionSpace : TRUE
  /\ CrawlStart
  /\ RateIdle
  /\ JsdomIdle
  /\ FetchIdle
  /\ FilterIdle
  /\ CacheIdle
  /\ scOptions \in ScrapeOptionSpace
  /\ scPc = "idle"
  /\ scFetchError = "null"
  /\ scContent = NoContent
  /\ scResult = NoValue
  /\ DetectIdle

\* lines 31-49: scrapeUrl is called and awaits smartFetch
CallScrapeUrl ==
  /\ scPc = "idle"
  /\ scPc' = "smartFetch"
  /\ UNCHANGED <<scOptions, scFetchError, scContent, scResult>>
  /\ UNCHANGED notScrapeVars

\* lines 58-61 and 100-273: smartFetch returned the document
SmartFetchReturns ==
  /\ scPc = "smartFetch"
  /\ \E c \in PageContents :
       /\ scContent' = c
       /\ scResult' = BuildResult(scOptions, "null", c)
  /\ scPc' = "returned"
  /\ UNCHANGED <<scOptions, scFetchError>>
  /\ UNCHANGED notScrapeVars

\* lines 63-75: smartFetch threw; scrapeUrl awaits a plain fetch(url)
SmartFetchThrows ==
  /\ scPc = "smartFetch"
  /\ scFetchError' \in {"error", "NotYetImplemented"}
  /\ scPc' = "fetch"
  /\ UNCHANGED <<scOptions, scContent, scResult>>
  /\ UNCHANGED notScrapeVars

\* lines 75-95 and 100-273: the plain fetch settled, with a document when
\* the response was ok and with nothing otherwise
FetchSettles ==
  /\ scPc = "fetch"
  /\ \E c \in PageContents :
       LET fetchError == IF c.html /\ scFetchError = "NotYetImplemented"
                         THEN "null" ELSE scFetchError
       IN /\ scContent' = c
          /\ scFetchError' = fetchError
          /\ scResult' = BuildResult(scOptions, fetchError, c)
  /\ scPc' = "returned"
  /\ UNCHANGED scOptions
  /\ UNCHANGED notScrapeVars

ScrapeNext ==
  \/ CallScrapeUrl
  \/ SmartFetchReturns
  \/ SmartFetchThrows
  \/ FetchSettles

ScrapeSpec == ScrapeInit /\ [][ScrapeNext]_vars

(***************************************************************************)
(* detectContentType, part_012 lines 55-131.  Of the html the function     *)
(* reads the metrics that cheerio counts in it (75-85).                    *)
(***************************************************************************)
TextLengths == {0, 199, 200, 500, 501}

MetricSpace ==
  [textLength : TextLengths,
   paragraphs : 0..MaxParagraphs,
   headings : 0..1,
   contentElements : 0..1,
   links : 0..1,
   scripts : {0} \cup (3..MaxScripts),
   lazyLoadElements : 0..1]

\* lines 88-96
hasSubstantialContent(metrics) ==
  \/ metrics.textLength > 500
  \/ /\ metrics.paragraphs > 2
     /\ metrics.links > 0
     /\ (metrics.headings > 0 \/ metrics.contentElements > 0)

\* any script at all counts as many scripts
isLikelySPA_AnyScript(metrics) ==
  /\ metrics.textLength < 200
  /\ metrics.paragraphs < 2
  /\ metrics.headings < 1
  /\ metrics.scripts > 0

\* lines 99-106
isLikelySPA(metrics) ==
  /\ metrics.textLength < 200
  /\ metrics.paragraphs < 2
  /\ metrics.headings < 1
  /\ metrics.scripts > 3

\* line 109
hasLazyContent(metrics) == metrics.lazyLoadElements > 0

ContentType(needsJavaScript) ==
  [kind |-> "returned", isStatic |-> ~needsJavaScript,
   needsJavaScript |-> needsJavaScript]

\* lines 55-131
detectContentType(metrics, host) ==
  LET quickCheck == quickContentTypeCheck(host) IN
  IF quickCheck.skip /\ quickCheck.needsJavaScript # "undefined"
  THEN ContentType(quickCheck.needsJavaScript = "true")
  ELSE ContentType((~hasSubstantialContent(metrics) /\ isLikelySPA(metrics))
                   \/ hasLazyContent(metrics))

DetectInit ==
  /\ startUrl = HomeA
  /\ options = CHOOSE o \in OptionSpace : TRUE
  /\ CrawlStart
  /\ RateIdle
  /\ JsdomIdle
  /\ FetchIdle
  /\ FilterIdle
  /\ CacheIdle
  /\ ScrapeIdle
  /\ dtHost \in FetchHosts
  /\ dtMetrics \in MetricSpace
  /\ dtResult = NoValue

\* detectContentType(html, url)
Detect ==
  /\ dtResult = NoValue
  /\ dtResult' = detectContentType(dtMetrics, dtHost)
  /\ UNCHANGED <<dtHost, dtMetrics>>
  /\ UNCHANGED notDetectVars

DetectNext ==
  \/ Detect

DetectSpec == DetectInit /\ [][DetectNext]_vars

(***************************************************************************)
(* jsDomFetch, part_012 lines 193-324: the JSDOM instance, the timers of   *)
(* the load wait and the race.  Times are in ms since the instance was     *)
(* created; a timer callback runs when no earlier timer is pending.        *)
(***************************************************************************)
JsdomTimeouts == {500, 2000, 10000, 30000}

\* moments at which the load event of the window may be dispatched
LoadMoments == {0, 500, 5000, 25000}

\* line 253: Math.min(timeout * 0.8, 8000)
waitTime(timeout) == Min((timeout * 8) \div 10, 8000)

\* setTimeout runs the callback after at least 1 ms
Delay(ms) == Max(ms, 1)

SetTimer(timers, name, due) ==
  [n \in (DOMAIN timers) \cup {name} |-> IF n = name THEN due ELSE timers[n]]

DropTimer(timers, name) == [n \in (DOMAIN timers) \ {name} |-> timers[n]]

\* the timer is pending and none is due before it
Due(name) ==
  /\ name \in DOMAIN jdTimers
  /\ \A n \in DOMAIN jdTimers : jdTimers[name] <= jdTimers[n]

\* the continuation of the awaited race is ready: it runs before any timer
RaceReactionPending == jdPc = "race" /\ jdRace # "pending"

\* resolve and reject of a promise that is settled already do nothing
Settle(race, how) == IF race = "pending" THEN how ELSE race

\* the window is left as it is
CloseWindow_Never(window) == window

\* lines 307-311: jsdom.window.close()
CloseWindow(window) == "closed"

JsdomInit ==
  /\ startUrl = HomeA
  /\ options = CHOOSE o \in OptionSpace : TRUE
  /\ CrawlStart
  /\ RateIdle
  /\ FetchIdle
  /\ FilterIdle
  /\ CacheIdle
  /\ ScrapeIdle
  /\ DetectIdle
  /\ jdTimeout \in JsdomTimeouts
  /\ jdPc = "idle"
  /\ jdWindow = "none"
  /\ jdLoad = "none"
  /\ jdTimers = NoTimers
  /\ jdNow = 0
  /\ jdRace = "pending"
  /\ jdResult = NoValue

\* lines 193-236: jsDomFetch is called and awaits simpleFetch
CallJsDom ==
  /\ jdPc = "idle"
  /\ jdPc' = "simpleFetch"
  /\ UNCHANGED <<jdTimeout, jdWindow, jdLoad, jdTimers, jdNow, jdRace,
                 jdResult>>
  /\ UNCHANGED notJsdomVars

\* lines 236-299: simpleFetch settled.  When it threw or new JSDOM throws,
\* jsDomFetch throws (318-323).  Otherwise the instance exists, the load
\* listener is added (276; when that throws, a timer of 100 ms is set,
\* 279), the timer of timeout - 1000 (283-291) and the timer of the
\* rejecting promise (295-299) are set, and jsDomFetch awaits the race.
JsdomSimpleSettles ==
  /\ jdPc = "simpleFetch"
  /\ \E fetched, constructed, listens \in BOOLEAN :
       IF ~fetched \/ ~constructed
       THEN /\ jdPc' = "threw"
            /\ jdResult' = ThrownValue
            /\ UNCHANGED <<jdWindow, jdLoad, jdTimers>>
       ELSE /\ jdPc' = "race"
            /\ jdWindow' = "open"
            /\ jdLoad' = IF listens THEN "listening" ELSE "none"
            /\ jdTimers' =
                 LET first == IF listens THEN NoTimers
                              ELSE SetTimer(NoTimers, "listenerFailed", 100)
                 IN SetTimer(SetTimer(first, "fallback",
                                      Delay(jdTimeout - 1000)),
                             "timeout", Delay(jdTimeout))
            /\ jdResult' = jdResult
  /\ UNCHANGED <<jdTimeout, jdNow, jdRace>>
  /\ UNCHANGED notJsdomVars

\* lines 260-271: the window dispatches load; onLoad sets the timer of
\* waitTime
LoadEvent ==
  /\ jdLoad = "listening"
  /\ jdWindow = "open"
  /\ ~RaceReactionPending
  /\ \E t \in LoadMoments :
       /\ t >= jdNow
       /\ \A n \in DOMAIN jdTimers : t <= jdTimers[n]
       /\ jdNow' = t
       /\ jdTimers' = SetTimer(jdTimers, "load", t + Delay(waitTime(jdTimeout)))
  /\ jdLoad' = "fired"
  /\ UNCHANGED <<jdTimeout, jdPc, jdWindow, jdRace, jdResult>>
  /\ UNCHANGED notJsdomVars

\* the callback of the timer `name` runs and settles the race as `how`
TimerRuns(name, how) ==
  /\ Due(name)
  /\ ~RaceReactionPending
  /\ jdNow' = Max(jdNow, jdTimers[name])
  /\ jdTimers' = DropTimer(jdTimers, name)
  /\ jdRace' = Settle(jdRace, how)
  /\ UNCHANGED <<jdTimeout, jdPc, jdWindow, jdLoad, jdResult>>
  /\ UNCHANGED notJsdomVars

\* lines 262-271: jsdom.serialize() gives the content or throws
LoadWaitEnds ==
  /\ jdLoad = "fired"
  /\ \E how \in {"content", "initialHtml"} : TimerRuns("load", how)

\* line 279
ListenerFailedTimer ==
  /\ jdLoad = "none"
  /\ TimerRuns("listenerFailed", "initialHtml")

\* lines 283-291: jsdom.serialize() gives the content or throws
FallbackTimer ==
  /\ jdWindow # "none"
  /\ \E how \in {"content", "initialHtml"} : TimerRuns("fallback", how)

\* lines 295-299
TimeoutTimer ==
  /\ jdWindow # "none"
  /\ TimerRuns("timeout", "rejected")

\* lines 300-317: the race settled; after a rejection result is
\* initialHtml; the window is closed and jsDomFetch returns
RaceSettled ==
  /\ RaceReactionPending
  /\ jdWindow' = CloseWindow(jdWindow)
  /\ jdPc' = "returned"
  /\ jdResult' = [kind |-> "returned",
                  html |-> IF jdRace = "content" THEN "content"
                           ELSE "initialHtml"]
  /\ UNCHANGED <<jdTimeout, jdLoad, jdTimers, jdNow, jdRace>>
  /\ UNCHANGED notJsdomVars

JsdomNext ==
  \/ CallJsDom
  \/ JsdomSimpleSettles
  \/ LoadEvent
  \/ LoadWaitEnds
  \/ ListenerFailedTimer
  \/ FallbackTimer
  \/ TimeoutTimer
  \/ RaceSettled

JsdomSpec == JsdomInit /\ [][JsdomNext]_vars

(***************************************************************************)
(* The token-bucket rate limiter, part_010.  A limiter has a rule for      *)
(* a.com from its options; b.com gets the default rule on first use.       *)
(***************************************************************************)
RateDomains == {"a.com", "b.com"}

\* the rules a caller may configure
RuleSpace == [tokensPerInterval : 1..MaxTokens, interval : 1..MaxInterval]

\* lines 39-42: the default rule when options name none, the largest
\* bucket and the shortest interval of RuleSpace
defaultRule == [tokensPerInterval |-> MaxTokens, interval |-> 1]

\* lines 49-54 and 74-79: a new rule starts with a full bucket
NewRule(rule, t) ==
  [tokensPerInterval |-> rule.tokensPerInterval,
   interval |-> rule.interval,
   tokensLeft |-> rule.tokensPerInterval,
   lastRefill |-> t]

PutRule(rules, domain, rule) ==
  [d \in (DOMAIN rules) \cup {domain} |-> IF d = domain THEN rule ELSE rules[d]]

\* lines 70-84
getRuleForDomain(rules, domain, t) ==
  IF domain \in DOMAIN rules THEN rules
  ELSE PutRule(rules, domain, NewRule(rlDefaultRule, t))

\* lines 89-106
refillTokens(rule, t) ==
  LET elapsed == t - rule.lastRefill IN
  IF elapsed >= rule.interval
  THEN LET intervals == elapsed \div rule.interval IN
       [rule EXCEPT
          !.tokensLeft = Min(rule.tokensPerInterval,
                             rule.tokensLeft + intervals * rule.tokensPerInterval),
          !.lastRefill = t - (elapsed % rule.interval)]
  ELSE rule

\* lines 111-132, up to the return or the await: the rules afterwards,
\* whether a token was granted, and the time to wait otherwise
acquire(rules, domain, t) ==
  LET created == getRuleForDomain(rules, domain, t)
      rule == refillTokens(created[domain], t)
  IN IF rule.tokensLeft > 0
     THEN [rules |-> PutRule(created, domain,
                             [rule EXCEPT !.tokensLeft = @ - 1]),
           granted |-> TRUE, timeToWait |-> 0]
     ELSE [rules |-> PutRule(created, domain, rule),
           granted |-> FALSE,
           timeToWait |-> rule.interval - (t - rule.lastRefill)]

\* lines 151-165: the tokens and the refill time of an existing rule are kept
updateRule(rules, domain, rule, t) ==
  PutRule(rules, domain,
          IF domain \in DOMAIN rules
          THEN [tokensPerInterval |-> rule.tokensPerInterval,
                interval |-> rule.interval,
                tokensLeft |-> rules[domain].tokensLeft,
                lastRefill |-> rules[domain].lastRefill]
          ELSE NewRule(rule, t))

\* lines 38-55: createRateLimiter({defaultRule, domainRules: {"a.com": rule}})
RateInit ==
  /\ startUrl = HomeA
  /\ options = CHOOSE o \in OptionSpace : TRUE
  /\ CrawlStart
  /\ FetchIdle
  /\ FilterIdle
  /\ CacheIdle
  /\ ScrapeIdle
  /\ DetectIdle
  /\ JsdomIdle
  /\ rlDefaultRule = defaultRule
  /\ \E rule \in RuleSpace : rlRules = PutRule(<<>>, "a.com", NewRule(rule, 0))
  /\ rlNow = 0
  /\ rlWaiters = [c \in Callers |-> Idle]
  /\ rlLastOp = NoCall

\* caller c goes through acquire for domain: it returns with a token or
\* sets the timer of timeToWait (127) and waits
Attempt(c, domain, op) ==
  LET a == acquire(rlRules, domain, rlNow) IN
  /\ rlRules' = a.rules
  /\ rlWaiters' = [rlWaiters EXCEPT ![c] =
                     IF a.granted THEN Idle
                     ELSE [st |-> "waiting", domain |-> domain,
                           due |-> rlNow + Max(a.timeToWait, 1)]]
  /\ rlLastOp' = [op |-> op, domain |-> domain]
  /\ UNCHANGED <<rlDefaultRule, rlNow>>
  /\ UNCHANGED notRateVars

\* acquire(url) is called
RateAcquire ==
  \E c \in Callers, domain \in RateDomains :
    /\ rlWaiters[c] = Idle
    /\ Attempt(c, domain, "acquire")

\* lines 127-131: the timer of a waiting caller fired, acquire is retried
RateRetry ==
  \E c \in Callers :
    /\ rlWaiters[c].st = "waiting"
    /\ rlNow >= rlWaiters[c].due
    /\ Attempt(c, rlWaiters[c].domain, "retry")

\* updateRule(domain, rule) is called
RateUpdateRule ==
  \E domain \in RateDomains, rule \in RuleSpace :
    /\ rlRules' = updateRule(rlRules, domain, rule, rlNow)
    /\ rlLastOp' = [op |-> "updateRule", domain |-> domain]
    /\ UNCHANGED <<rlDefaultRule, rlNow, rlWaiters>>
    /\ UNCHANGED notRateVars

\* one unit of time passes
RateTick ==
  /\ rlNow < MaxClock
  /\ rlNow' = rlNow + 1
  /\ rlLastOp' = [op |-> "tick", domain |-> "none"]
  /\ UNCHANGED <<rlDefaultRule, rlRules, rlWaiters>>
  /\ UNCHANGED notRateVars

RateNext ==
  \/ RateAcquire
  \/ RateRetry
  \/ RateUpdateRule
  \/ RateTick

RateSpec == RateInit /\ [][RateNext]_vars

(***************************************************************************)
(* Properties                                                              *)
(***************************************************************************)
UnitsOf(domain) ==
  {k \in 1..Len(activePromises) : activePromises[k].domain = domain}

\* URLs of a domain inside processUrl right now
InFlight(domain) ==
  {k \in UnitsOf(domain) : activePromises[k].st = "fetching"}

Failed(u) == outcome[u] = "fail"

ResultUrls == {results[i].url : i \in 1..Len(results)}

\* C1: budget respect - the number of pages recorded as completed
\* (pagesProcessed, returned as `completed`) never exceeds maxPages, in any
\* state of a run and in the returned result.
C1_BudgetRespect ==
  /\ pagesProcessed <= options.maxPages
  /\ (result.returned => result.completed <= options.maxPages)

\* C2: domain concurrency bound - at every instant and for every domain, the
\* number of URLs of that domain being processed (processUrl entered and not
\* yet left) is at most domainConcurrency.
C2_DomainConcurrencyBound ==
  \A d \in Domains : Cardinality(InFlight(d)) <= options.domainConcurrency

\* C2 witness: a domain has domainConcurrency URLs in flight while another
\* URL of that domain waits in the queue and the scheduler is parked.
C2_Witness ==
  /\ pcMain = "race"
  /\ \E d \in Domains :
       /\ Cardinality(InFlight(d)) = options.domainConcurrency
       /\ \E i \in 1..Len(queue) : getDomain(queue[i]) = d

\* C3: the in-flight counter domainCounts[d] never exceeds domainConcurrency,
\* for every domain d, whatever waits in the queue.
C3_CounterBound ==
  \A d \in Domains : domainCounts[d] <= options.domainConcurrency

\* C4: dedup - no URL is dispatched to the page processor more than once, no
\* URL appears more than once in results, and the number of visited URLs
\* never exceeds the total that is reported.
C4_Dedup ==
  /\ \A u \in Urls : dispatchCount[u] <= 1
  /\ \A i, j \in 1..Len(results) : results[i].url = results[j].url => i = j
  /\ (result.returned => Cardinality(visited) <= result.total)

\* C4 witness: two units of different domains, dispatched together, both
\* found the link to p3; it was turned away once and processed once.
C4_Witness ==
  /\ pcMain = "returned"
  /\ {HomeB, PageA1} \subseteq ResultUrls
  /\ \E f \in BOOLEAN : <<PageA3, f>> \in rejected
  /\ dispatchCount[PageA3] = 1
  /\ PageA3 \in ResultUrls

\* C5: depth bound - every result has depth <= maxDepth; a step enqueues
\* links only when it records a page of depth < maxDepth, and gives each
\* new link that depth + 1; recording a page at maxDepth enqueues nothing.
C5_DepthBound ==
  [][runs' = runs =>
       /\ \A i \in 1..Len(results') : results'[i].depth <= options.maxDepth
       /\ \A u \in SeqToSet(queue') \ SeqToSet(queue) :
            /\ Len(results') = Len(results) + 1
            /\ results'[Len(results')].depth < options.maxDepth
            /\ depth'[u] = results'[Len(results')].depth + 1]_vars

\* C5 witness: p1 was processed at depth maxDepth and its link p3 was not
\* enqueued.
C5_Witness ==
  /\ pcMain = "returned"
  /\ \E i \in 1..Len(results) :
       results[i].url = PageA1 /\ results[i].depth = options.maxDepth
  /\ PageA3 \notin DOMAIN depth

\* dispatched URLs without a terminal outcome yet
Pending == {u \in visited : outcome[u] = NoOutcome}

\* dispatched URLs whose processing ended without a result
Unsuccessful == {u \in visited : outcome[u] \notin {NoOutcome, "ok"}}

IdleUnits(ap) == \A k \in 1..Len(ap) : ap[k].st = "done"

\* C6: termination condition - the scheduler leaves its loop only when
\* pagesProcessed >= maxPages or when the queue is empty and no domain batch
\* is in flight; hence a run that returns with pagesProcessed < maxPages has
\* an empty queue and has dispatched every URL that was ever enqueued.
C6_TerminationCondition ==
  [][/\ (pcMain = "loop" /\ pcMain' \in {"final", "returned"}) =>
          \/ pagesProcessed >= options.maxPages
          \/ (Len(queue') = 0 /\ IdleUnits(activePromises))
     /\ (pcMain' = "returned" /\ pagesProcessed' < options'.maxPages) =>
          /\ Len(queue') = 0
          /\ \A u \in DOMAIN depth' : dispatchCount'[u] >= 1]_vars

\* C6 witness: a run returned below the page budget after links had been
\* enqueued by in-flight work while the queue was empty.
C6_Witness ==
  /\ pcMain = "returned"
  /\ pagesProcessed < options.maxPages
  /\ Cardinality(DOMAIN depth) >= 4
  /\ Len(queue) = 0

\* One call of crawlUrl: the steps of Next without a repeated call.
RunNext ==
  \/ MainLoop
  \/ RaceResumes
  \/ Return
  \/ UnitStarts
  \/ DelayEnds
  \/ ScrapeSettles
  \/ Tick

\* The event loop never stops while a callback is ready, a timer is pending
\* or a scrapeUrl call is outstanding: some enabled step is always taken.
FairSpec == Init /\ [][RunNext]_vars /\ WF_vars(RunNext)

\* C7: every crawl run terminates - when every scrapeUrl call settles and
\* ready callbacks are run, crawlUrl eventually returns its result; it
\* neither blocks forever on the race nor spins on the queue.
C7_Terminates == <>(pcMain = "returned")

\* C7 witness: a run returned after p3, which p1 put into the queue while
\* a.com was saturated by the batch of p1 and p2, had been processed.
C7_Witness ==
  /\ pcMain = "returned"
  /\ options.domainConcurrency = 1
  /\ {PageA1, PageA3} \subseteq ResultUrls
  /\ outcome[HomeB] # NoOutcome

C9_NoRetry ==
  [][runs' = runs =>
       \A u \in Urls :
         /\ outcome'[u] = "fail" =>
              /\ u \in DOMAIN failedUrlsCache'
              /\ failedUrlsCache'[u] = ErrorOf(u)
              /\ \E i \in 1..Len(errors') : errors'[i] = ErrorOf(u)
         /\ Failed(u) =>
              /\ dispatchCount'[u] = dispatchCount[u]
              /\ u \notin SeqToSet(queue')]_vars

\* C9 witness: a page linked to a URL that had failed before, and the link
\* was turned away.
C9_Witness == \E u \in Urls : Failed(u) /\ <<u, TRUE>> \in rejected

\* C10: errors are local to a URL - a failure of one URL leaves its unit
\* running with the next URL of the batch (or finished, after the last),
\* leaves every other unit and the scheduler as they were, and the run
\* returns a result with every dispatched URL processed and every domain
\* counter back at zero.
C10_ErrorsLocal ==
  [][runs' = runs =>
       /\ \A k \in 1..Len(activePromises) :
            LET unit == activePromises[k]
                url == unit.urls[unit.idx]
            IN (unit.st = "fetching" /\ ~Failed(url)
                /\ outcome'[url] = "fail") =>
                 /\ Len(activePromises') = Len(activePromises)
                 /\ \A j \in 1..Len(activePromises) :
                      j # k => activePromises'[j] = activePromises[j]
                 /\ pcMain' = pcMain
                 /\ IF unit.idx < Len(unit.urls)
                    THEN /\ activePromises'[k].idx = unit.idx + 1
                         /\ activePromises'[k].st \in {"delay", "fetching"}
                    ELSE activePromises'[k].st = "done"
       /\ pcMain' = "returned" =>
            /\ result'.returned
            /\ \A u \in visited' : outcome'[u] # NoOutcome
            /\ \A d \in Domains : domainCounts'[d] = 0]_vars

\* C10 witness: p1 failed, p2 of the same batch and the b.com batch were
\* still processed, and the run returned.
C10_Witness ==
  /\ pcMain = "returned"
  /\ options.concurrency = 2
  /\ Failed(PageA1)
  /\ outcome[PageA2] = "ok"
  /\ outcome[HomeB] = "ok"
  /\ result.returned /\ ~result.success

\* URLs whose processing ended with a page in this run
Succeeded == {u \in Urls : outcome[u] = "ok"}

\* C11: the returned result has success = false exactly when at least one
\* error was recorded during the run (some URL failed with an error), and
\* in both cases it carries completed, total and the data of every
\* successfully processed page.
C11_ResultSummary ==
  result.returned =>
    /\ result.success <=> ~(\E u \in Urls : Failed(u))
    /\ result.success <=> Len(errors) = 0
    /\ result.completed = Cardinality(Succeeded)
    /\ result.total = Cardinality(visited) + Len(queue)
    /\ Len(result.data) = Cardinality(Succeeded)
    /\ {result.data[i].url : i \in 1..Len(result.data)} = Succeeded

\* C11 witness: a run returned success = false together with the pages it
\* did process.
C11_Witness ==
  /\ result.returned
  /\ ~result.success
  /\ result.completed >= 2
  /\ Len(result.data) = result.completed

\* positions of the error log that hold the error of url
ErrorEntries(url) == {i \in 1..Len(errors) : errors[i] = ErrorOf(url)}

\* C12: each URL whose processing fails (its scrape returned an error)
\* contributes exactly one entry to the error log and no entry to results
\* or to completed; a run whose seed URL fails returns completed = 0,
\* success = false and exactly one error entry, which is the seed's.
C12_OneErrorPerFailure ==
  /\ \A u \in Urls :
       Failed(u) => Cardinality(ErrorEntries(u)) = 1 /\ u \notin ResultUrls
  /\ Len(errors) = Cardinality({u \in Urls : Failed(u)})
  /\ pagesProcessed = Cardinality(Succeeded)
  /\ (result.returned /\ Failed(startUrl)) =>
       /\ result.completed = 0
       /\ ~result.success
       /\ Len(result.data) = 0
       /\ errors = <<ErrorOf(startUrl)>>

\* C12 witness: the seed failed and the run returned.
C12_Witness ==
  /\ result.returned
  /\ Failed(startUrl)
  /\ Len(errors) = 1

\* unit k enters processUrl with a URL in this step
StartsFetch(k) ==
  /\ MainSuspended
  /\ pcMain' = pcMain
  /\ Len(activePromises') = Len(activePromises)
  /\ activePromises'[k].st = "fetching"
  /\ \/ activePromises[k].st # "fetching"
     \/ activePromises[k].idx # activePromises'[k].idx

\* the last completed fetch of the domain lies at least domainDelay back
DelayRespected(domain) ==
  domain \in DOMAIN lastProcessed' =>
    lastProcessed'[domain] >= options.domainDelay

\* C13: domain delay lower bound - whenever a fetch to a domain starts, the
\* last completion of a fetch to that domain, by the same batch or by
\* another running batch of the domain, lies at least domainDelay back.
C13_DomainDelay ==
  [][\A k \in 1..Len(activePromises') :
       StartsFetch(k) => DelayRespected(activePromises'[k].domain)]_vars

\* the unit with these URLs is in the in-flight list ap
Tracked(ap, urls) == \E j \in 1..Len(ap) : ap[j].urls = urls

\* C14: when crawlUrl returns all in-flight work has settled - a promise
\* leaves the in-flight list only after its unit completed, at the return
\* no unit is queued, sleeping or fetching and every counter is released,
\* and after the return results, errors, queue and the compiled result no
\* longer change.
C14_AllSettledAtReturn ==
  [][runs' = runs =>
       /\ \A k \in 1..Len(activePromises) :
            activePromises[k].st # "done" =>
              Tracked(activePromises', activePromises[k].urls)
       /\ pcMain' = "returned" =>
            /\ \A k \in 1..Len(activePromises') :
                 activePromises'[k].st = "done"
            /\ result'.returned
            /\ result'.data = results'
            /\ result'.remaining = Len(queue')
       /\ pcMain = "returned" =>
            /\ results' = results
            /\ errors' = errors
            /\ queue' = queue
            /\ result' = result]_vars

\* C14 witness: the loop was left on the page budget while units were in
\* flight, the units were awaited, and the run returned.
C14_Witness ==
  /\ pcMain = "returned"
  /\ pagesProcessed >= options.maxPages
  /\ Len(activePromises) >= 2
  /\ Len(queue) > 0

\* URLs that were discovered in this run: the seed and every enqueued link
Frontier == DOMAIN depth

\* C15: the returned status is "incomplete" exactly when URLs remain in the
\* queue at the return and "completed" otherwise; URLs remain in the queue
\* only when the page budget was reached; and "completed" means that the
\* frontier was drained: every discovered URL was dispatched and processed.
C15_StatusMeaning ==
  result.returned =>
    /\ result.status \in {"incomplete", "completed"}
    /\ result.status = "incomplete" <=> Len(queue) > 0
    /\ result.remaining = Len(queue)
    /\ Len(queue) > 0 => pagesProcessed >= options.maxPages
    /\ result.status = "completed" =>
         /\ Frontier \subseteq visited
         /\ Pending = {}

\* C15 witness: a run returned "incomplete" with URLs left in its queue.
C15_Witness ==
  /\ result.returned
  /\ result.status = "incomplete"
  /\ result.remaining >= 2

\* smartFetch's own simpleFetch call returned HTML
LightweightSucceeded == simpleResult.kind = "html"

\* C16: render fallback correctness - when the lightweight fetch returned
\* N bytes and jsDomFetch returned M bytes, smartFetch returns exactly the
\* lightweight result with usedJsdom = false if M <= 1.1 * N, and the
\* jsDomFetch result with usedJsdom = true only if M > 1.1 * N, on the
\* known-JS-heavy path and on the general path alike.
C16_RenderFallback ==
  (sfPc = "done" /\ LightweightSucceeded) =>
    /\ jsdomResult.kind = "html" =>
         IF 10 * jsdomResult.len <= 11 * simpleResult.len
         THEN sfResult = Returned(simpleResult, FALSE)
         ELSE sfResult = Returned(jsdomResult, TRUE)
    /\ (sfResult.kind = "returned" /\ sfResult.usedJsdom) =>
         /\ jsdomResult.kind = "html"
         /\ 10 * jsdomResult.len > 11 * simpleResult.len

\* C16 witness: on a known JS-heavy host the render gave 11 bytes for 10
\* lightweight bytes, and the lightweight result was returned.
C16_Witness ==
  /\ sfPc = "done"
  /\ sfHost \in KNOWN_JS_HEAVY_DOMAINS
  /\ simpleResult = Html("simpleFetch", 10)
  /\ jsdomResult = Html("jsdom", 11)
  /\ sfResult = Returned(simpleResult, FALSE)

\* the heavy render failed: jsDomFetch threw, or its render timed out or
\* could not be serialized and it fell back to its initial HTML
RenderFailed ==
  \/ jsdomResult = ThrownValue
  \/ jsdomResult.kind = "html" /\ jsdomResult.from = "jsDomFetch"

\* C17: a rendering failure is never fatal - whenever the lightweight
\* fetch succeeded smartFetch returns, and after any failure of the heavy
\* render it returns the lightweight content with usedJsdom = false.
C17_RenderFailureNotFatal ==
  (sfPc = "done" /\ LightweightSucceeded) =>
    /\ sfResult.kind = "returned"
    /\ RenderFailed => sfResult = Returned(simpleResult, FALSE)

\* C18: smartFetch throws only when both strategies are exhausted - the
\* lightweight fetch threw, the heavy render was attempted and failed too,
\* and the error thrown is the lightweight one.
C18_FailsOnlyWhenBothFail ==
  (sfPc = "done" /\ sfResult.kind = "thrown") =>
    /\ simpleResult = ThrownValue
    /\ jsdomResult = ThrownValue
    /\ sfResult.error = "simpleFetch"

\* C19: during one smartFetch call the url is requested over the network
\* at most once.
C19_SingleRequest == netRequests <= 1

\* sub is links with some elements removed, the rest in the same order
RECURSIVE IsSubList(_, _)
IsSubList(sub, links) ==
  IF sub = <<>> THEN TRUE
  ELSE IF links = <<>> THEN FALSE
  ELSE IF Head(sub) = Head(links)
       THEN IsSubList(Tail(sub), Tail(links))
       ELSE IsSubList(sub, Tail(links))

\* C20: idempotent filtering - filterLinks applied to its own output with
\* the same base URL and options returns that output unchanged, and the
\* output of filterLinks is a sub-list of its input in the same order.
C20_FilterIdempotent ==
  /\ flApplied >= 1 => IsSubList(flOnce, flLinks)
  /\ flApplied = 2 => flTwice = flOnce

\* C20 witness: an exclude pattern removed one of two links, and the second
\* application has been made.
C20_Witness ==
  /\ flApplied = 2
  /\ Len(flLinks) = 2
  /\ Len(flOnce) = 1
  /\ flOptions.includePatterns = {"a.com/*"}
  /\ flOptions.excludePatterns = {"/p"}

\* URLs that were put into a domain batch in this run
Dispatched == {u \in Urls : dispatchCount[u] >= 1}

\* C21: with allowExternalDomains = false a link whose hostname differs
\* from the hostname of the page it was found on is never enqueued, although
\* the include pattern matches it; hence every URL that is queued, visited or
\* dispatched in such a run has the hostname of the seed.
C21_NoExternalLinks ==
  ~options.allowExternalDomains =>
    /\ \A u \in Frontier \cup SeqToSet(queue) \cup visited \cup Dispatched :
         getDomain(u) = getDomain(startUrl)
    /\ \A u \in Succeeded :
         \A i \in 1..Len(PageLinks(u)) :
           getDomain(PageLinks(u)[i]) # getDomain(u) =>
             PageLinks(u)[i] \notin Frontier

\* C21 witness: the seed page was processed, its same-host links were
\* enqueued, and its link to b.com, which the include pattern "*" matches,
\* was not.
C21_Witness ==
  /\ ~options.allowExternalDomains
  /\ outcome[startUrl] = "ok"
  /\ HomeB \in SeqToSet(PageLinks(startUrl))
  /\ Matches("*", HomeB)
  /\ PageA1 \in Frontier
  /\ HomeB \notin Frontier

\* C22: the failed-URL cache is emptied at the start of every crawl run,
\* before any URL is dispatched; so the cache only ever holds URLs that
\* failed in the current run, and a URL is dropped from the queue, passed
\* over in a batch or turned away at enqueue on account of the failed cache
\* only when it failed in the current run.
C22_FailedCacheCleared ==
  [][/\ runs' # runs =>
          /\ DOMAIN failedUrlsCache' = {}
          /\ \A u \in Urls : dispatchCount'[u] = 0
          /\ visited' = {}
     /\ \A u \in DOMAIN failedUrlsCache' : outcome'[u] = "fail"
     /\ \A r \in rejected' : r[2] => outcome'[r[1]] = "fail"
     /\ runs' = runs =>
          \A u \in SeqToSet(queue) \ SeqToSet(queue') :
            \/ dispatchCount'[u] = dispatchCount[u] + 1
            \/ outcome[u] = "fail"]_vars

\* C22 witness: the seed failed in the first run (it enqueued no link
\* although links may be followed, and only a failure does that to a seed),
\* and in the second run the seed was dispatched and is being fetched.
C22_Witness ==
  /\ runs = 2
  /\ options.maxDepth >= 1
  /\ seenUrlsCache = {}
  /\ DOMAIN failedUrlsCache = {}
  /\ dispatchCount[startUrl] = 1
  /\ \E k \in 1..Len(activePromises) :
       /\ activePromises[k].st = "fetching"
       /\ activePromises[k].urls[activePromises[k].idx] = startUrl

\* the call that this step made on the cache was a read (get or has)
ReadStep == lastCall' # lastCall /\ lastCall'.op \in {"get", "has"}

\* the read gave what a miss gives: undefined from get, false from has
GaveMiss(call) ==
  IF call.op = "get" THEN call.ret = Absent ELSE call.ret = FALSE

\* the read gave the stored item: its value from get, true from has
GaveHit(call, item) ==
  IF call.op = "get" THEN call.ret = Found(item.value) ELSE call.ret = TRUE

\* C23: TTL cache - get or has on a key whose entry has expired (the clock
\* is past its expiry) gives what a miss gives and removes that entry and
\* no other, so size() goes down by one; on an unexpired entry it gives the
\* stored value / true and leaves the cache as it was; on a missing key it
\* gives the miss and leaves the cache as it was.
C23_ExpiredReadIsMiss ==
  [][ReadStep =>
       LET key == lastCall'.key IN
       IF key \notin DOMAIN cache
       THEN GaveMiss(lastCall') /\ cache' = cache
       ELSE IF now > cache[key].expiry
       THEN /\ GaveMiss(lastCall')
            /\ key \notin DOMAIN cache'
            /\ \A k \in (DOMAIN cache) \ {key} :
                 k \in DOMAIN cache' /\ cache'[k] = cache[k]
            /\ size(cache') = size(cache) - 1
       ELSE /\ GaveHit(lastCall', cache[key])
            /\ cache' = cache]_vars

\* C23 witness: has found the entry of k1 expired and removed it, and the
\* entry of k2 is still in the cache.
C23_Witness ==
  /\ lastCall.op = "has"
  /\ lastCall.key = "k1"
  /\ lastCall.branch = "expired"
  /\ lastCall.ret = FALSE
  /\ DOMAIN cache = {"k2"}

\* new URL(startUrl) throws
MalformedSeed == UrlToString(startUrl) = Invalid

\* a unit is inside processUrl with url, or has been
FetchAttempted(url) ==
  \/ outcome[url] # NoOutcome
  \/ \E k \in 1..Len(activePromises) :
       /\ activePromises[k].st = "fetching"
       /\ activePromises[k].urls[activePromises[k].idx] = url

\* C24: crawlUrl fails fast on a malformed seed URL - for such a seed no
\* URL is marked visited, no fetch is attempted and no result is returned
\* (the call throws instead); for every other seed the result that is
\* returned is a structured one.
C24_MalformedSeedFailsFast ==
  /\ MalformedSeed =>
       /\ visited = {}
       /\ \A u \in Urls : ~FetchAttempted(u)
       /\ ~result.returned
  /\ (~MalformedSeed /\ pcMain = "returned") =>
       /\ result.returned
       /\ result.status \in {"incomplete", "completed"}
       /\ result.data = results

C26_Backpressure ==
  (pcMain = "loop" /\ LoopCondition) =>
    Len(activePromises) <= 2 * options.concurrency

\* the page at url was processed and its links were followed
LinksFollowed(url) ==
  /\ outcome[url] = "ok"
  /\ url \in DOMAIN depth
  /\ MayFollowLinks(depth[url])

\* the URL that the reference href on the page at url ends up as (690-693)
ResolvesTo(href, url) == UrlToString(normalizeUrl(href, url))

\* the number of times u stands in the sequence s
Occurrences(s, u) == Cardinality({i \in 1..Len(s) : s[i] = u})

\* the relative references of the site: the page, the href and its target
RelativeRefs ==
  UNION {{[page |-> pg, href |-> Hrefs(pg)[i],
           target |-> ResolvesTo(Hrefs(pg)[i], pg)] :
            i \in {k \in 1..Len(Hrefs(pg)) : ~IsAbsolute(Hrefs(pg)[k])}} :
         pg \in Urls}

\* the pairs of differently written relative references with one target
SameTarget ==
  {p \in RelativeRefs \X RelativeRefs :
     p[1].href # p[2].href /\ p[1].target = p[2].target}

\* u is the target of two differently written references on followed pages
ReachedTwice(u) ==
  \E p \in SameTarget :
    /\ p[1].target = u
    /\ LinksFollowed(p[1].page)
    /\ LinksFollowed(p[2].page)

\* C27: when two links that are written as different relative paths
\* resolve to the same normalized URL, that URL is enqueued at most once in
\* the run (it stands in the queue once or was dispatched once, never both)
\* and has at most one entry in results.
C27_SameTargetOnce ==
  \A p \in SameTarget :
    (LinksFollowed(p[1].page) /\ LinksFollowed(p[2].page)) =>
      LET u == p[1].target IN
      /\ Occurrences(queue, u) + dispatchCount[u] <= 1
      /\ Cardinality({i \in 1..Len(results) : results[i].url = u}) <= 1

\* C27 witness: p1 links to p3 as "./p3" and p2 as "/p3"; both pages were
\* followed, p3 was enqueued once and has its one entry in results.
C27_Witness ==
  /\ LinksFollowed(PageA1) /\ LinksFollowed(PageA2)
  /\ ResolvesTo("./p3", PageA1) = PageA3
  /\ ResolvesTo("/p3", PageA2) = PageA3
  /\ ReachedTwice(PageA3)
  /\ dispatchCount[PageA3] = 1
  /\ Cardinality({i \in 1..Len(results) : results[i].url = PageA3}) = 1

\* the fetch failed: scrapeUrl built its result with a fetch error
FetchFailed == scFetchError # "null"

\* enough content was obtained from the html that scrapeUrl holds
ContentObtained == hasContent(DataOf(scOptions, scContent))

\* C28: page-processor partial-failure contract - when the fetch failed
\* and enough content was still obtained, scrapeUrl returns success = true
\* with the non-fatal error note, and when the fetch failed it returns
\* success = false only if no such content was obtained; this for every
\* option set, with or without transform hooks that leave the result alone.
C28_PartialFailure ==
  (scPc = "returned" /\ FetchFailed /\ scOptions.beforeTransform # "clears") =>
    /\ ContentObtained =>
         scResult = ScrapeResult(TRUE, "Partial content")
    /\ ~scResult.success => ~ContentObtained

\* the page has substantial content: text > 500, or paragraphs > 2 with at
\* least one link and at least one heading or container
Substantial ==
  \/ dtMetrics.textLength > 500
  \/ /\ dtMetrics.paragraphs > 2
     /\ dtMetrics.links >= 1
     /\ (dtMetrics.headings >= 1 \/ dtMetrics.contentElements >= 1)

\* the page looks like an empty application shell
LikelyShell ==
  /\ dtMetrics.textLength < 200
  /\ dtMetrics.paragraphs < 2
  /\ dtMetrics.headings = 0
  /\ dtMetrics.scripts > 3

\* C29: content-type detection - for a known-static host detectContentType
\* returns needsJavaScript = false and for a known-heavy host true, whatever
\* the HTML; for every other host needsJavaScript = (NOT substantial AND
\* likely-shell) OR lazy-load elements present; isStatic is its negation.
C29_ContentTypeDetection ==
  dtResult.kind = "returned" =>
    /\ dtResult.isStatic = ~dtResult.needsJavaScript
    /\ IF dtHost \in KNOWN_STATIC_DOMAINS
       THEN ~dtResult.needsJavaScript
       ELSE IF dtHost \in KNOWN_JS_HEAVY_DOMAINS
       THEN dtResult.needsJavaScript
       ELSE dtResult.needsJavaScript <=>
              ((~Substantial /\ LikelyShell)
               \/ dtMetrics.lazyLoadElements > 0)

\* C29 witness: a page of an unlisted host with three scripts, little text
\* and no lazy-load element was found not to need JavaScript.
C29_Witness ==
  /\ dtResult.kind = "returned"
  /\ dtHost = "a.com"
  /\ dtMetrics.textLength = 199
  /\ dtMetrics.paragraphs = 1
  /\ dtMetrics.headings = 0
  /\ dtMetrics.scripts = 3
  /\ dtMetrics.lazyLoadElements = 0
  /\ ~dtResult.needsJavaScript

\* the links of a followed page that pass the filter, normalized
FollowedLinks ==
  UNION {{UrlToString(l) : l \in SeqToSet(filterLinks(PageLinks(pg), pg))} :
         pg \in {u \in Urls : LinksFollowed(u)}}

\* C30: crawl state is not shared across concurrent crawls - with a second
\* crawl running in the process, the first behaves as it does alone: no
\* URL of its frontier is dropped (it is queued or visited), every link of
\* a page it followed is in its frontier, and when it returns every URL it
\* visited was processed to a terminal outcome.
C30_RunsIsolated ==
  /\ \A u \in Frontier : u \in visited \/ u \in SeqToSet(queue)
  /\ \A u \in FollowedLinks \ {Invalid} : u \in Frontier
  /\ pcMain = "returned" => \A u \in visited : outcome[u] # NoOutcome

\* the URLs of a domain batch that its loop has taken up, and of these the
\* one it is at
TakenUp(unit) ==
  IF unit.st = "queued" THEN {}
  ELSE {j \in 1..Len(unit.urls) : j <= unit.idx}
AtWork(unit) ==
  IF unit.st \in {"delay", "fetching"} THEN {unit.idx} ELSE {}

\* C31: within one domain batch URLs are processed strictly sequentially in
\* batch order - a URL of the batch has a terminal outcome exactly when it
\* comes before the one the loop is at, and the loop moves on from a URL only
\* in a step that gives the URL its outcome and writes the domain's
\* lastProcessed timestamp.
C31_BatchSequential ==
  /\ [](\A k \in 1..Len(activePromises) :
          LET unit == activePromises[k] IN
          \A j \in 1..Len(unit.urls) :
            outcome[unit.urls[j]] # NoOutcome
              <=> j \in TakenUp(unit) \ AtWork(unit))
  /\ [][\A k \in 1..Len(activePromises) :
          (/\ k <= Len(activePromises')
           /\ activePromises'[k].urls = activePromises[k].urls
           /\ activePromises[k].st # "queued"
           /\ activePromises'[k].idx > activePromises[k].idx)
          => LET unit == activePromises[k] IN
             /\ outcome[unit.urls[unit.idx]] = NoOutcome
             /\ outcome'[unit.urls[unit.idx]] # NoOutcome
             /\ unit.domain \in DOMAIN lastProcessed'
             /\ lastProcessed'[unit.domain] = 0]_vars

\* a batch is at its second URL after the first got its outcome
C31_Witness ==
  \E k \in 1..Len(activePromises) :
    /\ activePromises[k].idx = 2
    /\ activePromises[k].st = "fetching"
    /\ outcome[activePromises[k].urls[1]] # NoOutcome

\* the units a step appended to activePromises
Appended ==
  IF Len(activePromises') > Len(activePromises)
  THEN SubSeq(activePromises', Len(activePromises) + 1, Len(activePromises'))
  ELSE <<>>

\* C32: global concurrency - at every instant at most `concurrency` domain
\* batches are executing, the others that were dispatched wait in the
\* limiter, and one batching step dispatches batches of at most
\* `concurrency` domains, one batch per domain.
C32_GlobalConcurrency ==
  /\ [](/\ RunningCount <= options.concurrency
        /\ \A k \in 1..Len(activePromises) :
             activePromises[k].st \in {"queued", "delay", "fetching", "done"})
  /\ [][/\ Len(Appended) <= options.concurrency
        /\ \A i, j \in 1..Len(Appended) :
             Appended[i].domain = Appended[j].domain => i = j
        /\ \A i \in 1..Len(Appended) : Appended[i].st = "queued"]_vars

\* `concurrency` batches are executing while another one waits in the limiter
C32_Witness ==
  /\ RunningCount = options.concurrency
  /\ \E k \in 1..Len(activePromises) : activePromises[k].st = "queued"

\* the number of URLs in the batches of domain, among the promises from
\* index k on, whose unit has not run its finally block yet
RECURSIVE Outstanding(_, _)
Outstanding(domain, k) ==
  IF k > Len(activePromises) THEN 0
  ELSE (IF /\ activePromises[k].domain = domain
           /\ activePromises[k].st # "done"
        THEN Len(activePromises[k].urls) ELSE 0)
       + Outstanding(domain, k + 1)

\* unit k ends in this step
Completes(k) ==
  /\ k <= Len(activePromises')
  /\ activePromises[k].st # "done"
  /\ activePromises'[k].st = "done"
  /\ activePromises'[k].urls = activePromises[k].urls

\* C33: in-flight counter accounting - domainCounts[d] is the number of URLs
\* in the batches of d that were dispatched and have not completed (so the
\* counter is raised in the dispatching step itself), a completing batch
\* lowers it once by its own size without the clamp at zero taking effect,
\* and every counter is 0 when the run has returned.
C33_CounterAccounting ==
  /\ [](/\ \A d \in Domains : domainCounts[d] = Outstanding(d, 1)
        /\ pcMain = "returned" => \A d \in Domains : domainCounts[d] = 0)
  /\ [][\A k \in 1..Len(activePromises) :
          Completes(k) =>
            LET unit == activePromises[k] IN
            /\ domainCounts[unit.domain] >= Len(unit.urls)
            /\ domainCounts'[unit.domain] =
                 domainCounts[unit.domain] - Len(unit.urls)]_vars

\* a run has returned after a batch of two URLs ran its finally block
C33_Witness ==
  /\ pcMain = "returned"
  /\ \E k \in 1..Len(activePromises) :
       /\ activePromises[k].st = "done"
       /\ Len(activePromises[k].urls) = 2
       /\ domainCounts[activePromises[k].domain] = 0

\* C34: in every reachable state the queue holds no URL twice and no URL
\* that is already visited; a link discovered again, by the same or by
\* another domain batch, while it is queued or visited is not enqueued.
C34_QueueClean ==
  /\ \A i, j \in 1..Len(queue) : queue[i] = queue[j] => i = j
  /\ \A i \in 1..Len(queue) : queue[i] \notin visited

\* p3, linked from p1 and from p2, was turned away once and is queued once
C34_Witness ==
  /\ <<PageA3, FALSE>> \in rejected
  /\ outcome[PageA1] = "ok"
  /\ outcome[PageA2] = "ok"
  /\ Occurrences(queue, PageA3) = 1

C36_RunsIndependent ==
  /\ \A r \in rejected : r[1] \in Frontier
  /\ result.returned =>
       \A u \in FollowedLinks \ {Invalid} : u \in visited \/ u \in SeqToSet(queue)

\* A crawl of the site of w.com that may go three links deep, with a page
\* budget of half the site or one that the site cannot use up.
DeepInit ==
  /\ startUrl = HomeW
  /\ options \in [maxDepth : {3},
                  maxPages : {3, 7},
                  concurrency : {2},
                  domainDelay : 0..MaxDomainDelay,
                  domainConcurrency : 1..MaxDomainConcurrency,
                  allowExternalDomains : {TRUE}]
  /\ CrawlStart
  /\ RateIdle
  /\ JsdomIdle
  /\ FetchIdle
  /\ FilterIdle
  /\ CacheIdle
  /\ ScrapeIdle
  /\ DetectIdle

DeepSpec == DeepInit /\ [][RunNext]_vars

\* the URLs reachable from the seed by a chain of at most k links that pass
\* the filter
RECURSIVE Reach(_)
Reach(k) ==
  IF k = 0 THEN {startUrl}
  ELSE LET near == Reach(k - 1) IN
       near \cup
       (UNION {{UrlToString(l) : l \in SeqToSet(filterLinks(PageLinks(pg), pg))} :
               pg \in near} \ {Invalid})

\* C37: completeness within the depth limit - when a run has returned, no
\* page failed and maxPages was not reached, every URL reachable from the
\* seed by a chain of at most maxDepth filter-passing links is in results,
\* whatever the interleaving of the domain batches was.
C37_CompleteWithinDepth ==
  (/\ result.returned
   /\ \A u \in visited : outcome[u] = "ok"
   /\ result.completed < options.maxPages)
  => Reach(options.maxDepth) \subseteq ResultUrls

\* the strings that denote the URL of the seed
SeedForms == {u \in Urls : UrlToString(u) = UrlToString(startUrl)}

\* C38: the seed URL is deduplicated like any discovered link - no link
\* whose normalized form denotes the URL of the seed is enqueued, and the
\* seed page is dispatched at most once in a run.
C38_SeedDeduplicated ==
  UrlToString(startUrl) # Invalid =>
    /\ \A u \in SeedForms \ {startUrl} : u \notin Frontier
    /\ \A u, v \in SeedForms :
         dispatchCount[u] + dispatchCount[v] <= (IF u = v THEN 2 ELSE 1)

C40_TokenBucket ==
  /\ [](\A d \in DOMAIN rlRules :
          /\ 0 <= rlRules[d].tokensLeft
          /\ rlRules[d].tokensLeft <= rlRules[d].tokensPerInterval)
  /\ [][rlLastOp'.op \in {"acquire", "retry"} =>
          \A d \in DOMAIN rlRules :
            d # rlLastOp'.domain => rlRules'[d] = rlRules[d]]_vars
====
